---- MODULE Spec2Model ----
(***************************************************************************)
(* Model of the money-mule detection engine (graphAnalysis.ts):            *)
(* buildGraph, detectCycles, detectFanIn, detectFanOut,                    *)
(* detectLayeredTransfers, detectHighVelocity and analyzeTransactions.     *)
(*                                                                         *)
(* Strings (account ids, ring ids, join keys) are sequences of UTF-16 code *)
(* units, so that sort() and join() are modelled by what they do.          *)
(* A JavaScript Map is a sequence of <<key, value>> pairs and a JavaScript *)
(* Set a duplicate-free sequence, both in insertion order, because the     *)
(* code iterates them.  Timestamps are getTime() milliseconds.             *)
(* Risk scores are kept in tenths (Math.round(x * 10) / 10).               *)
(* A loop of the code that carries state from one iteration to the next is *)
(* a recursive operator over the record of the loop's variables, its index *)
(* included; a loop that only searches, counts or filters is the set or    *)
(* sequence expression of what it computes.                                *)
(***************************************************************************)
EXTENDS Integers, Sequences, FiniteSets, TLC

\* ------------------------------------------------------------------------
\* Strings, Array, Map and Set primitives
\* ------------------------------------------------------------------------

Range(s) == {s[i] : i \in 1..Len(s)}

Last(s) == s[Len(s)]

Front(s) == SubSeq(s, 1, Len(s) - 1)

Includes(s, x) == \E i \in 1..Len(s) : s[i] = x

NoDup(s) == \A i, j \in 1..Len(s) : s[i] = s[j] => i = j

\* a < b in the order of String comparison (UTF-16 code units, prefix first)
StrLess(a, b) ==
    \E i \in 1..Len(b) :
        /\ Len(a) >= i - 1
        /\ \A j \in 1..(i - 1) : a[j] = b[j]
        /\ (Len(a) = i - 1 \/ a[i] < b[i])

RECURSIVE InsertStr(_, _)
InsertStr(sorted, x) ==
    IF sorted = <<>> THEN <<x>>
    ELSE IF StrLess(x, Head(sorted)) THEN <<x>> \o sorted
    ELSE <<Head(sorted)>> \o InsertStr(Tail(sorted), x)

\* Array.prototype.sort() without a comparator, on strings
RECURSIVE SortStr(_)
SortStr(s) == IF s = <<>> THEN <<>> ELSE InsertStr(SortStr(Front(s)), Last(s))

\* Array.prototype.join(sep)
RECURSIVE Join(_, _)
Join(s, sep) ==
    IF s = <<>> THEN <<>>
    ELSE IF Len(s) = 1 THEN s[1]
    ELSE s[1] \o sep \o Join(Tail(s), sep)

Comma == <<44>>

Arrow == <<45, 62>>

\* Map.has / Map.get / Map.set / Map.keys on an insertion-ordered map
MapHas(m, k) == \E i \in 1..Len(m) : m[i][1] = k

MapGet(m, k) == m[CHOOSE i \in 1..Len(m) : m[i][1] = k][2]

MapSet(m, k, v) ==
    IF MapHas(m, k)
    THEN [i \in 1..Len(m) |-> IF m[i][1] = k THEN <<k, v>> ELSE m[i]]
    ELSE Append(m, <<k, v>>)

MapKeys(m) == [i \in 1..Len(m) |-> m[i][1]]

\* map.get(k) || dflt
MapGetOr(m, k, dflt) == IF MapHas(m, k) THEN MapGet(m, k) ELSE dflt

\* Set.add on an insertion-ordered set
SetAdd(s, x) == IF Includes(s, x) THEN s ELSE Append(s, x)

\* if (!m.has(k)) m.set(k, empty)
Ensure(m, k) == IF MapHas(m, k) THEN m ELSE Append(m, <<k, <<>>>>)

\* Array.from(new Set(s)): the elements of s in the order of their first
\* occurrence
Distinct(s) ==
    LET firsts == {j \in 1..Len(s) : \A k \in 1..(j - 1) : s[k] # s[j]}
    IN  [n \in 1..Cardinality(firsts) |->
            s[CHOOSE j \in firsts : Cardinality({k \in firsts : k <= j}) = n]]

\* s.reduce((a, b) => a + b, 0) for integers (addition is associative, so
\* the sum is taken by halves)
RECURSIVE SumSeq(_)
SumSeq(s) ==
    IF Len(s) = 0 THEN 0
    ELSE IF Len(s) = 1 THEN s[1]
    ELSE SumSeq(SubSeq(s, 1, Len(s) \div 2))
            + SumSeq(SubSeq(s, Len(s) \div 2 + 1, Len(s)))

\* [...txs].sort((a, b) => a.timestamp.getTime() - b.timestamp.getTime()):
\* a stable sort by timestamp.  The record at position i goes behind the
\* records with an earlier timestamp and behind the earlier records with
\* the same timestamp.
SortByTime(txs) ==
    LET Rank(i) ==
            Cardinality({k \in 1..Len(txs) :
                            \/ txs[k].timestamp < txs[i].timestamp
                            \/ txs[k].timestamp = txs[i].timestamp /\ k <= i})
    IN  [n \in 1..Len(txs) |-> txs[CHOOSE i \in 1..Len(txs) : Rank(i) = n]]

\* for (j = i; j < sorted.length && sorted[j].timestamp <= windowEnd; j++):
\* the last index the loop visits (i - 1 if it visits none)
WindowLast(sorted, i, windowEnd) ==
    i - 1 + Cardinality({j \in i..Len(sorted) :
                            \A k \in i..j : sorted[k].timestamp <= windowEnd})

\* ------------------------------------------------------------------------
\* buildGraph
\* ------------------------------------------------------------------------

\* one iteration of the loop over the transactions
BuildGraphKeys(m, tx) == Ensure(Ensure(m, tx.sender_id), tx.receiver_id)

\* a variant that lists a transaction under its sender only
BuildGraphTxSenderList(g, tx) ==
    LET adj0 == BuildGraphKeys(g.adj, tx)
        rev0 == BuildGraphKeys(g.revAdj, tx)
        atx0 == BuildGraphKeys(g.accountTxs, tx)
    IN  [adj |-> MapSet(adj0, tx.sender_id,
                        SetAdd(MapGet(adj0, tx.sender_id), tx.receiver_id)),
         revAdj |-> MapSet(rev0, tx.receiver_id,
                           SetAdd(MapGet(rev0, tx.receiver_id), tx.sender_id)),
         accountTxs |-> MapSet(atx0, tx.sender_id,
                               Append(MapGet(atx0, tx.sender_id), tx))]

BuildGraphTx(g, tx) ==
    LET adj0 == BuildGraphKeys(g.adj, tx)
        rev0 == BuildGraphKeys(g.revAdj, tx)
        atx0 == BuildGraphKeys(g.accountTxs, tx)
        atx1 == MapSet(atx0, tx.sender_id, Append(MapGet(atx0, tx.sender_id), tx))
    IN  [adj |-> MapSet(adj0, tx.sender_id,
                        SetAdd(MapGet(adj0, tx.sender_id), tx.receiver_id)),
         revAdj |-> MapSet(rev0, tx.receiver_id,
                           SetAdd(MapGet(rev0, tx.receiver_id), tx.sender_id)),
         accountTxs |-> MapSet(atx1, tx.receiver_id,
                               Append(MapGet(atx1, tx.receiver_id), tx))]

\* for (const tx of transactions) { ... }
RECURSIVE BuildGraphLoop(_, _)
BuildGraphLoop(lp, txs) ==
    IF lp.i > Len(txs) THEN lp.g
    ELSE BuildGraphLoop([i |-> lp.i + 1, g |-> BuildGraphTx(lp.g, txs[lp.i])], txs)

buildGraph(txs) ==
    BuildGraphLoop([i |-> 1,
                    g |-> [adj |-> <<>>, revAdj |-> <<>>, accountTxs |-> <<>>]], txs)

\* a variant that counts the entries of the list
TxEntryCount(txs) == Len(txs)

\* new Set(txs.map((t) => t.transaction_id)).size
UniqueTxIdCount(txs) == Cardinality({txs[i].transaction_id : i \in 1..Len(txs)})

\* the loop that fills accountTxCounts
TxCountsOf(accountTxs) ==
    [i \in 1..Len(accountTxs) |->
        <<accountTxs[i][1], UniqueTxIdCount(accountTxs[i][2])>>]

\* ------------------------------------------------------------------------
\* detectCycles
\* ------------------------------------------------------------------------

CycleMaxLen == 5

CycleMinLen == 3

\* [...path].sort().join(",")
CycleKey(path) == Join(SortStr(path), Comma)

\* a variant that closes a cycle only when path.length > 3
CycleVisitLongOnly(st, startNode, path, neighbor, maxLen) ==
    IF neighbor = startNode /\ Len(path) > CycleMinLen
    THEN IF Join(SortStr(path), Comma) \in st.cycleSet
         THEN st
         ELSE [st EXCEPT !.cycleSet = @ \cup {Join(SortStr(path), Comma)},
                         !.allCycles = Append(@, path)]
    ELSE IF ~Includes(path, neighbor) /\ Len(path) < maxLen
         THEN [st EXCEPT !.stack =
                   Append(@, [node |-> neighbor, path |-> Append(path, neighbor)])]
         ELSE st

\* a variant that pushes a neighbour already on the path
CycleVisitNoIncludes(st, startNode, path, neighbor, maxLen) ==
    IF neighbor = startNode /\ Len(path) >= CycleMinLen
    THEN IF Join(SortStr(path), Comma) \in st.cycleSet
         THEN st
         ELSE [st EXCEPT !.cycleSet = @ \cup {Join(SortStr(path), Comma)},
                         !.allCycles = Append(@, path)]
    ELSE IF Len(path) < maxLen
         THEN [st EXCEPT !.stack =
                   Append(@, [node |-> neighbor, path |-> Append(path, neighbor)])]
         ELSE st

\* the body of the loop over the neighbours of a popped stack entry;
\* st = [stack, allCycles, cycleSet]
CycleVisit(st, startNode, path, neighbor, maxLen) ==
    IF neighbor = startNode /\ Len(path) >= CycleMinLen
    THEN IF CycleKey(path) \in st.cycleSet
         THEN st
         ELSE [st EXCEPT !.cycleSet = @ \cup {CycleKey(path)},
                         !.allCycles = Append(@, path)]
    ELSE IF ~Includes(path, neighbor) /\ Len(path) < maxLen
         THEN [st EXCEPT !.stack =
                   Append(@, [node |-> neighbor, path |-> Append(path, neighbor)])]
         ELSE st

\* for (const neighbor of neighbors) { ... }
RECURSIVE CycleNeighbors(_, _, _, _, _)
CycleNeighbors(lp, startNode, path, nbrs, maxLen) ==
    IF lp.j > Len(nbrs) THEN lp.st
    ELSE CycleNeighbors([j |-> lp.j + 1,
                         st |-> CycleVisit(lp.st, startNode, path, nbrs[lp.j], maxLen)],
                        startNode, path, nbrs, maxLen)

\* const { node, path } = stack.pop(); the loop over the neighbours
CyclePop(st, startNode, adj, maxLen) ==
    CycleNeighbors([j |-> 1, st |-> [st EXCEPT !.stack = Front(@)]],
                   startNode, Last(st.stack).path,
                   MapGetOr(adj, Last(st.stack).node, <<>>), maxLen)

\* while (stack.length > 0) { ... }
RECURSIVE CycleWhile(_, _, _, _)
CycleWhile(st, startNode, adj, maxLen) ==
    IF st.stack = <<>> THEN st
    ELSE CycleWhile(CyclePop(st, startNode, adj, maxLen), startNode, adj, maxLen)

\* const stack = [{ node: startNode, path: [startNode] }]; while ...
CycleFrom(st, startNode, adj, maxLen) ==
    CycleWhile([st EXCEPT !.stack = <<[node |-> startNode, path |-> <<startNode>>]>>],
               startNode, adj, maxLen)

\* for (const startNode of nodes) { ... }
RECURSIVE CycleStarts(_, _, _)
CycleStarts(lp, adj, maxLen) ==
    IF lp.i > Len(adj) THEN lp.st
    ELSE CycleStarts([i |-> lp.i + 1,
                      st |-> CycleFrom(lp.st, adj[lp.i][1], adj, maxLen)],
                     adj, maxLen)

detectCyclesLen(adj, maxLen) ==
    CycleStarts([i |-> 1,
                 st |-> [stack |-> <<>>, allCycles |-> <<>>, cycleSet |-> {}]],
                adj, maxLen).allCycles

detectCycles(adj) == detectCyclesLen(adj, CycleMaxLen)

\* ------------------------------------------------------------------------
\* detectFanIn / detectFanOut
\* ------------------------------------------------------------------------

FanThreshold == 10

\* 72 * 60 * 60 * 1000
FanWindowMs == 72 * 60 * 60 * 1000

\* one iteration of the grouping loop
GroupTx(m, tx, field) ==
    MapSet(Ensure(m, tx[field]), tx[field],
           Append(MapGetOr(m, tx[field], <<>>), tx))

\* the grouping loop: byReceiver (field = "receiver_id") or bySender
RECURSIVE GroupByLoop(_, _, _)
GroupByLoop(lp, txs, field) ==
    IF lp.i > Len(txs) THEN lp.m
    ELSE GroupByLoop([i |-> lp.i + 1, m |-> GroupTx(lp.m, txs[lp.i], field)],
                     txs, field)

GroupBy(txs, field) == GroupByLoop([i |-> 1, m |-> <<>>], txs, field)

\* the Set filled by the inner loop at start index i, as an array:
\* for (j = i; ... <= windowEnd; j++) unique.add(sorted[j][field])
WindowUnique(sorted, i, windowEnd, field) ==
    Distinct([k \in 1..(WindowLast(sorted, i, windowEnd) - i + 1) |->
                 sorted[i + k - 1][field]])

\* a variant whose window excludes its end: timestamp < windowEnd
FanWindowAtExclusive(sorted, i, field) ==
    WindowUnique(sorted, i, sorted[i].timestamp + FanWindowMs - 1, field)

FanWindowAt(sorted, i, field) ==
    WindowUnique(sorted, i, sorted[i].timestamp + FanWindowMs, field)

\* for (i = 0; ...) { ...; if (unique.size >= threshold) { set; break } }:
\* the window of the first start index that reaches the threshold
FanScan(sorted, field, threshold) ==
    LET hits == {i \in 1..Len(sorted) :
                    Len(FanWindowAt(sorted, i, field)) >= threshold}
    IN  IF hits = {} THEN [found |-> FALSE, members |-> <<>>]
        ELSE [found |-> TRUE,
              members |-> FanWindowAt(sorted,
                                      CHOOSE i \in hits : \A j \in hits : i <= j,
                                      field)]

\* a variant that scans each group in the order of the input, unsorted
FanGroupsUnsorted(groups, field, threshold) ==
    LET Scan(group) == FanScan(group[2], field, threshold)
        flagged == SelectSeq(groups, LAMBDA group : Scan(group).found)
    IN  [n \in 1..Len(flagged) |-> <<flagged[n][1], Scan(flagged[n]).members>>]

\* the loop over the groups, in the insertion order of the grouping map:
\* a group is set in the result (under its own key) if its scan succeeds
FanGroups(groups, field, threshold) ==
    LET Scan(group) == FanScan(SortByTime(group[2]), field, threshold)
        flagged == SelectSeq(groups, LAMBDA group : Scan(group).found)
    IN  [n \in 1..Len(flagged) |-> <<flagged[n][1], Scan(flagged[n]).members>>]

detectFan(txs, groupField, countField, threshold) ==
    FanGroups(GroupBy(txs, groupField), countField, threshold)

detectFanIn(txs) == detectFan(txs, "receiver_id", "sender_id", FanThreshold)

\* a variant in which an account flagged as fan-in aggregator is not also
\* flagged as fan-out distributor
detectFanOutUnlessFanIn(txs) ==
    SelectSeq(detectFan(txs, "sender_id", "receiver_id", FanThreshold),
              LAMBDA e : ~MapHas(detectFanIn(txs), e[1]))

detectFanOut(txs) == detectFan(txs, "sender_id", "receiver_id", FanThreshold)

\* ------------------------------------------------------------------------
\* detectLayeredTransfers
\* ------------------------------------------------------------------------

ShellThreshold == 3

MinChainLen == 3

MaxChainLen == 8

\* accountTxCounts.get(acc) || 0
TxCount(counts, acc) == MapGetOr(counts, acc, 0)

IsShell(counts, acc) == TxCount(counts, acc) <= ShellThreshold

\* newPath.slice(1, -1)
Intermediates(path) == IF Len(path) <= 2 THEN <<>> ELSE SubSeq(path, 2, Len(path) - 1)

\* intermediates.filter((acc) => (accountTxCounts.get(acc) || 0) <= shellThreshold)
FilterShells(counts, s) == SelectSeq(s, LAMBDA acc : IsShell(counts, acc))

\* chain.join("->")
ChainKey(path) == Join(path, Arrow)

\* the body of the loop over the neighbours of a popped stack entry;
\* st = [stack, layeredChains, foundChains]
LayerVisit(st, counts, path, shells, neighbor) ==
    IF Includes(path, neighbor) THEN st
    ELSE IF Len(path) >= MaxChainLen THEN st
    ELSE
      LET isShell == IsShell(counts, neighbor)
          newPath == Append(path, neighbor)
          newShells == IF isShell THEN Append(shells, neighbor) ELSE shells
          intermediates == Intermediates(newPath)
          allIntermediatesShell ==
              \A k \in 1..Len(intermediates) : IsShell(counts, intermediates[k])
          recorded ==
              IF /\ Len(newPath) >= MinChainLen
                 /\ allIntermediatesShell
                 /\ Len(intermediates) > 0
                 /\ ChainKey(newPath) \notin st.foundChains
              THEN [st EXCEPT
                      !.foundChains = @ \cup {ChainKey(newPath)},
                      !.layeredChains =
                          Append(@, [chain |-> newPath,
                                     shells |-> FilterShells(counts, intermediates)])]
              ELSE st
      IN  IF isShell
          THEN [recorded EXCEPT !.stack =
                   Append(@, [node |-> neighbor, path |-> newPath,
                              shells |-> newShells])]
          ELSE recorded

\* for (const neighbor of neighbors) { ... }
RECURSIVE LayerNeighbors(_, _, _, _, _)
LayerNeighbors(lp, counts, path, shells, nbrs) ==
    IF lp.j > Len(nbrs) THEN lp.st
    ELSE LayerNeighbors([j |-> lp.j + 1,
                         st |-> LayerVisit(lp.st, counts, path, shells, nbrs[lp.j])],
                        counts, path, shells, nbrs)

\* const { node, path, shells } = stack.pop(); the loop over the neighbours
LayerPop(st, adj, counts) ==
    LayerNeighbors([j |-> 1, st |-> [st EXCEPT !.stack = Front(@)]], counts,
                   Last(st.stack).path, Last(st.stack).shells,
                   MapGetOr(adj, Last(st.stack).node, <<>>))

\* while (stack.length > 0) { ... }
RECURSIVE LayerWhile(_, _, _)
LayerWhile(st, adj, counts) ==
    IF st.stack = <<>> THEN st
    ELSE LayerWhile(LayerPop(st, adj, counts), adj, counts)

\* if (startTxCount <= shellThreshold) continue; stack = [start]; while ...
LayerFrom(st, startNode, adj, counts) ==
    IF TxCount(counts, startNode) <= ShellThreshold THEN st
    ELSE LayerWhile([st EXCEPT !.stack =
                        <<[node |-> startNode, path |-> <<startNode>>,
                           shells |-> <<>>]>>],
                    adj, counts)

\* for (const startNode of nodes) { ... }
RECURSIVE LayerStarts(_, _, _)
LayerStarts(lp, adj, counts) ==
    IF lp.i > Len(adj) THEN lp.st
    ELSE LayerStarts([i |-> lp.i + 1,
                      st |-> LayerFrom(lp.st, adj[lp.i][1], adj, counts)],
                     adj, counts)

detectLayeredTransfers(adj, counts) ==
    LayerStarts([i |-> 1,
                 st |-> [stack |-> <<>>, layeredChains |-> <<>>, foundChains |-> {}]],
                adj, counts).layeredChains

\* ------------------------------------------------------------------------
\* detectHighVelocity
\* ------------------------------------------------------------------------

VelocityThreshold == 5

\* 60 * 60 * 1000
VelocityWindowMs == 60 * 60 * 1000

\* for (j = i; j < sorted.length && sorted[j].timestamp <= end; j++) count++
VelocityCountAt(sorted, i) ==
    WindowLast(sorted, i, sorted[i].timestamp + VelocityWindowMs) - i + 1

\* for (i = 0; ...) { count the window; if (count >= 5) { add; break } }
IsHighVelocity(txs) ==
    LET sorted == SortByTime(txs)
    IN  \E i \in 1..Len(sorted) : VelocityCountAt(sorted, i) >= VelocityThreshold

\* the loop over accountTxs; the result is a Set in insertion order (the
\* keys of a Map are distinct)
detectHighVelocity(accountTxs) ==
    SelectSeq(MapKeys(accountTxs),
              LAMBDA account : IsHighVelocity(MapGet(accountTxs, account)))

\* ------------------------------------------------------------------------
\* analyzeTransactions: score, pattern and ring aggregation
\* ------------------------------------------------------------------------

MaxScore == 100

CycleScore == 40

FanScore == 25

ShellScore == 30

VelocityScore == 10

Min(a, b) == IF a <= b THEN a ELSE b

\* the aggregator's maps; s = [accountScores, accountPatterns, accountRings]
initAccount(s, id) ==
    IF MapHas(s.accountScores, id) THEN s
    ELSE [s EXCEPT !.accountScores = MapSet(@, id, 0),
                   !.accountPatterns = MapSet(@, id, <<>>)]

\* a variant that adds without saturating
addScoreUnclamped(s, id, score) ==
    LET t == initAccount(s, id)
    IN  [t EXCEPT !.accountScores =
            MapSet(@, id, MapGet(t.accountScores, id) + score)]

addScore(s, id, score) ==
    LET t == initAccount(s, id)
    IN  [t EXCEPT !.accountScores =
            MapSet(@, id, Min(MaxScore, MapGet(t.accountScores, id) + score))]

addPattern(s, id, pattern) ==
    LET t == initAccount(s, id)
    IN  [t EXCEPT !.accountPatterns =
            MapSet(@, id, SetAdd(MapGet(t.accountPatterns, id), pattern))]

\* a variant in which a later ring replaces the ring of an account
setRingLastWins(s, id, ringId) ==
    [s EXCEPT !.accountRings = MapSet(@, id, ringId)]

\* if (!accountRings.has(id)) accountRings.set(id, ringId)
setRing(s, id, ringId) ==
    IF MapHas(s.accountRings, id) THEN s
    ELSE [s EXCEPT !.accountRings = MapSet(@, id, ringId)]

\* String(n): the decimal digits of n, as code units
RECURSIVE DecimalString(_)
DecimalString(n) ==
    IF n < 10 THEN <<48 + n>>
    ELSE Append(DecimalString(n \div 10), 48 + (n % 10))

\* String.prototype.padStart(width, "0")
RECURSIVE PadStart(_, _)
PadStart(str, width) ==
    IF Len(str) >= width THEN str ELSE PadStart(<<48>> \o str, width)

RingIdWidth == 3

\* a variant without the padding
RingIdUnpadded(n) == <<82, 73, 78, 71, 95>> \o DecimalString(n)

\* `RING_${String(n).padStart(3, "0")}`
RingId(n) == <<82, 73, 78, 71, 95>> \o PadStart(DecimalString(n), RingIdWidth)

\* `cycle_length_${cycleLen}`
CycleTag(cycleLen) ==
    CASE cycleLen = 1 -> "cycle_length_1"
      [] cycleLen = 2 -> "cycle_length_2"
      [] cycleLen = 3 -> "cycle_length_3"
      [] cycleLen = 4 -> "cycle_length_4"
      [] cycleLen = 5 -> "cycle_length_5"
      [] cycleLen = 6 -> "cycle_length_6"
      [] cycleLen = 7 -> "cycle_length_7"
      [] OTHER -> "cycle_length_8_or_more"

\* members.reduce((sum, acc) => sum + (accountScores.get(acc) || 0), 0)
SumScores(scores, members) ==
    SumSeq([k \in 1..Len(members) |-> MapGetOr(scores, members[k], 0)])

\* Math.round(avg * 10) / 10 of avg = sum / n, in tenths; Math.round rounds
\* half up.  Exact for the integer scores and the ring sizes below 100 that
\* occur here (no such quotient times ten lies within a floating-point
\* error of a half).
RiskTenths(scores, members) ==
    (20 * SumScores(scores, members) + Len(members)) \div (2 * Len(members))

\* a variant that lists only the members with a positive score
RingScoredMembersOnly(ringId, members, patternType, scores) ==
    LET scored == SelectSeq(members, LAMBDA a : MapGetOr(scores, a, 0) > 0)
    IN  [ring_id |-> ringId, member_accounts |-> scored,
         pattern_type |-> patternType,
         risk_score |-> IF scored = <<>> THEN 0 ELSE RiskTenths(scores, scored)]

Ring(ringId, members, patternType, scores) ==
    [ring_id |-> ringId, member_accounts |-> members,
     pattern_type |-> patternType, risk_score |-> RiskTenths(scores, members)]

\* a variant that scores a cycle member without tagging it
CycleMemberUntagged(s, account, cycleLen, ringId) ==
    setRing(addScore(s, account, CycleScore), account, ringId)

\* the body of: for (const account of cycle)
CycleMember(s, account, cycleLen, ringId) ==
    setRing(addPattern(addScore(s, account, CycleScore), account, CycleTag(cycleLen)),
            account, ringId)

\* for (const account of cycle) { addScore; addPattern; first ring wins }
RECURSIVE CycleMembers(_, _, _)
CycleMembers(lp, cycle, ringId) ==
    IF lp.k > Len(cycle) THEN lp.s
    ELSE CycleMembers([k |-> lp.k + 1,
                       s |-> CycleMember(lp.s, cycle[lp.k], Len(cycle), ringId)],
                      cycle, ringId)

\* a variant that gives the k-th counterparty the id with number k
RECURSIVE SetRingsByPosition(_, _, _)
SetRingsByPosition(lp, ids, ringId) ==
    IF lp.k > Len(ids) THEN lp.s
    ELSE SetRingsByPosition([k |-> lp.k + 1,
                             s |-> setRing(lp.s, ids[lp.k], RingId(lp.k))],
                            ids, ringId)

\* for (const x of counterparties) first ring wins
RECURSIVE SetRings(_, _, _)
SetRings(lp, ids, ringId) ==
    IF lp.k > Len(ids) THEN lp.s
    ELSE SetRings([k |-> lp.k + 1, s |-> setRing(lp.s, ids[lp.k], ringId)],
                  ids, ringId)

\* the hub of a fan-in or fan-out ring, then its counterparties
FanMembers(s, hub, others, tag, ringId) ==
    SetRings([k |-> 1,
              s |-> setRing(addPattern(addScore(s, hub, FanScore), hub, tag),
                            hub, ringId)],
             others, ringId)

\* a variant that tags a shell and sets its ring without scoring it
ShellMemberUnscored(s, shell, ringId) ==
    setRing(addPattern(s, shell, "shell_account"), shell, ringId)

\* the body of: for (const shell of shells)
ShellMember(s, shell, ringId) ==
    setRing(addPattern(addScore(s, shell, ShellScore), shell, "shell_account"),
            shell, ringId)

\* for (const shell of shells) { addScore; addPattern; first ring wins }
RECURSIVE ShellMembers(_, _, _)
ShellMembers(lp, shells, ringId) ==
    IF lp.k > Len(shells) THEN lp.s
    ELSE ShellMembers([k |-> lp.k + 1, s |-> ShellMember(lp.s, shells[lp.k], ringId)],
                      shells, ringId)

\* a variant in which a velocity finding tags the account without scoring it
VelocityMemberTagOnly(s, account) == addPattern(s, account, "high_velocity")

VelocityMember(s, account) ==
    addPattern(addScore(s, account, VelocityScore), account, "high_velocity")

\* ------------------------------------------------------------------------
\* analyzeTransactions: the report
\* ------------------------------------------------------------------------

Undefined == <<>>

\* transactions.filter((t) => t[field] === accountId)
\*     .reduce((s, t) => s + t.amount, 0)
SumAmounts(txs, field, accountId) ==
    LET kept == SelectSeq(txs, LAMBDA t : t[field] = accountId)
    IN  SumSeq([k \in 1..Len(kept) |-> kept[k].amount])

BuildNode(accountId, txs, atxs, scores, patterns, rings) ==
    LET score == Min(MaxScore, MapGetOr(scores, accountId, 0))
    IN  [id |-> accountId,
         transactions |-> MapGetOr(atxs, accountId, <<>>),
         suspicionScore |-> score,
         detectedPatterns |-> MapGetOr(patterns, accountId, <<>>),
         ringId |-> MapGetOr(rings, accountId, Undefined),
         isSuspicious |-> score > 0,
         totalSent |-> SumAmounts(txs, "sender_id", accountId),
         totalReceived |-> SumAmounts(txs, "receiver_id", accountId),
         txCount |-> UniqueTxIdCount(MapGetOr(atxs, accountId, <<>>))]

\* a variant that builds nodes only for the accounts that were scored
BuildNodesScored(allAccounts, txs, atxs, scores, patterns, rings) ==
    [i \in 1..Len(scores) |->
        BuildNode(scores[i][1], txs, atxs, scores, patterns, rings)]

\* allAccounts = new Set(adj.keys()); one node per account, in that order
BuildNodes(allAccounts, txs, atxs, scores, patterns, rings) ==
    [i \in 1..Len(allAccounts) |->
        BuildNode(allAccounts[i], txs, atxs, scores, patterns, rings)]

\* a variant whose loop runs one index too far and maps an undefined record
BuildEdgesOneTooFar(txs) ==
    [i \in 1..(Len(txs) + 1) |->
        IF i <= Len(txs)
        THEN [source |-> txs[i].sender_id, target |-> txs[i].receiver_id,
              amount |-> txs[i].amount, timestamp |-> txs[i].timestamp]
        ELSE [source |-> <<>>, target |-> <<>>, amount |-> 0, timestamp |-> 0]]

\* a variant that keeps one edge per ordered account pair, the first
BuildEdgesMergedByPair(txs) ==
    LET first == {i \in 1..Len(txs) :
                    \A j \in 1..(i - 1) :
                      txs[j].sender_id # txs[i].sender_id
                        \/ txs[j].receiver_id # txs[i].receiver_id}
        kept == SelectSeq([i \in 1..Len(txs) |-> i], LAMBDA i : i \in first)
    IN  [k \in 1..Len(kept) |->
          [source |-> txs[kept[k]].sender_id, target |-> txs[kept[k]].receiver_id,
           amount |-> txs[kept[k]].amount, timestamp |-> txs[kept[k]].timestamp]]

BuildEdges(txs) ==
    [i \in 1..Len(txs) |->
        [source |-> txs[i].sender_id, target |-> txs[i].receiver_id,
         amount |-> txs[i].amount, timestamp |-> txs[i].timestamp]]

\* the second pass over the rings, with the final scores
FinalRisk(ring, scores) ==
    [ring EXCEPT !.risk_score =
        IF Len(ring.member_accounts) > 0
        THEN RiskTenths(scores, ring.member_accounts) ELSE 0]

\* a variant without the second pass: each ring keeps the risk computed
\* when it was pushed
UpdateRiskScoresKept(rings, scores) == rings

UpdateRiskScores(rings, scores) ==
    [i \in 1..Len(rings) |-> FinalRisk(rings[i], scores)]

\* a variant that counts the nodes that have a ring
CountRinged(nodes) == Cardinality({i \in 1..Len(nodes) : nodes[i].ringId # Undefined})

\* nodes.filter((n) => n.isSuspicious).length
CountSuspicious(nodes) == Cardinality({i \in 1..Len(nodes) : nodes[i].isSuspicious})

\* Math.round(((endTime - startTime) / 1000) * 100) / 100, in hundredths of
\* a second, of an elapsed time in whole milliseconds
ProcessingTime(elapsedMs) == (elapsedMs + 5) \div 10

\* ------------------------------------------------------------------------
\* Ledgers given to analyzeTransactions
\* ------------------------------------------------------------------------

\* a Transaction; transaction ids are only compared for equality, so
\* numbers stand for distinct id strings
Tx(id, sender, receiver, amount, ts) ==
    [transaction_id |-> id, sender_id |-> sender, receiver_id |-> receiver,
     amount |-> amount, timestamp |-> ts]

\* timestamps are milliseconds counted from the start of the ledger's first
\* day (the detectors only compare and subtract them)
Minute == 60 * 1000

Hour == 60 * Minute

Day == 24 * Hour

\* account ids: "A" .. "F", and ids that contain a separator of a join key
AccA == <<65>>

AccB == <<66>>

AccC == <<67>>

AccD == <<68>>

AccE == <<69>>

AccF == <<70>>

\* "A,B"
AccAcommaB == <<65, 44, 66>>

\* "B->C"
AccBarrowC == <<66, 45, 62, 67>>

\* the sub-ledger of a reference ledger that keeps the records at the
\* positions in keep, in order
RECURSIVE SubLedger(_, _)
SubLedger(pool, keep) ==
    IF pool = <<>> THEN <<>>
    ELSE IF Len(pool) \in keep
         THEN Append(SubLedger(Front(pool), keep), Last(pool))
         ELSE SubLedger(Front(pool), keep)

SubLedgers(pool) == {SubLedger(pool, keep) : keep \in SUBSET (1..Len(pool))}

\* one record per edge, ids 1, 2, ..., timestamps step apart
EdgeLedger(edges, step) ==
    [i \in 1..Len(edges) |-> Tx(i, edges[i][1], edges[i][2], 1, i * step)]

Reverse(s) == [i \in 1..Len(s) |-> s[Len(s) + 1 - i]]

\* a dense graph on four accounts: 3-cycles and a 4-cycle through A,
\* a 2-cycle and a self-transfer; a minute apart
DensePool ==
    EdgeLedger(<< <<AccA, AccB>>, <<AccB, AccC>>, <<AccC, AccA>>, <<AccB, AccD>>,
                  <<AccD, AccA>>, <<AccA, AccC>>, <<AccC, AccD>>, <<AccB, AccA>>,
                  <<AccA, AccA>>, <<AccD, AccB>> >>, Minute)

\* a ring of six accounts with chords that close a 5-cycle and a 3-cycle
LongPool ==
    EdgeLedger(<< <<AccA, AccB>>, <<AccB, AccC>>, <<AccC, AccD>>, <<AccD, AccE>>,
                  <<AccE, AccF>>, <<AccF, AccA>>, <<AccE, AccA>>, <<AccC, AccA>> >>,
               Day)

\* the cycles A,B,C,D and "A,B",C,D
CommaPool ==
    EdgeLedger(<< <<AccA, AccB>>, <<AccB, AccC>>, <<AccC, AccD>>, <<AccD, AccA>>,
                  <<AccAcommaB, AccC>>, <<AccD, AccAcommaB>> >>, Day)

\* the paths A,B,C,D and A,"B->C",D, with self-transfers that raise the
\* transaction counts of A and D
ArrowPool ==
    EdgeLedger(<< <<AccA, AccB>>, <<AccB, AccC>>, <<AccC, AccD>>,
                  <<AccA, AccBarrowC>>, <<AccBarrowC, AccD>>, <<AccA, AccA>>,
                  <<AccA, AccA>>, <<AccD, AccD>>, <<AccD, AccD>> >>, Day)

\* the paths A,B,C,D and A,"B->C",D again, and a transfer from D back to
\* "B->C" that extends only the first of them
ArrowTailPool ==
    EdgeLedger(<< <<AccA, AccB>>, <<AccB, AccC>>, <<AccC, AccD>>,
                  <<AccA, AccBarrowC>>, <<AccBarrowC, AccD>>, <<AccD, AccBarrowC>>,
                  <<AccA, AccA>>, <<AccA, AccA>> >>, Day)

ArrowTailLedgers == {ArrowTailPool, Reverse(ArrowTailPool)}

PoolLedgers ==
    SubLedgers(DensePool) \cup SubLedgers(LongPool) \cup SubLedgers(CommaPool)
        \cup SubLedgers(ArrowPool)

\* the three transactions of a triangle, in any order, with any of two
\* timestamps, amounts and account namings
Permutations3 == {p \in [1..3 -> 1..3] : \A i, j \in 1..3 : p[i] = p[j] => i = j}

TriangleNames == {<<AccA, AccB, AccC>>, <<AccAcommaB, AccA, AccB>>}

TriangleTx(names, k, amount, ts) ==
    Tx(k, names[k], names[(k % 3) + 1], amount, ts)

TriangleLedgers ==
    {[i \in 1..3 |-> TriangleTx(names, p[i], amt[p[i]], ts[p[i]])] :
        names \in TriangleNames, p \in Permutations3,
        amt \in {<<1, 1, 1>>, <<0, 7, 2>>}, ts \in [1..3 -> {0, Day}]}

\* a hub and n counterparties P1..Pn, one transaction each: the first
\* `early` a minute apart from time 0, the others all at time `late`.
\* `odd` replaces the last counterparty by P1 again ("dup") or by the hub
\* itself ("self"); dir is "in" (to the hub), "out" or "both".
AccHub == <<72>>

Party(i) == <<80, 48 + i>>

MaxFan == 12

FanParty(n, odd, i) ==
    IF i = n /\ odd = "dup" THEN Party(1)
    ELSE IF i = n /\ odd = "self" THEN AccHub
    ELSE Party(i)

FanTime(early, late, i) == IF i <= early THEN (i - 1) * Minute ELSE late

FanInLedger(n, early, late, odd) ==
    [i \in 1..n |-> Tx(i, FanParty(n, odd, i), AccHub, 1, FanTime(early, late, i))]

FanOutLedger(n, early, late, odd) ==
    [i \in 1..n |-> Tx(n + i, AccHub, FanParty(n, odd, i), 1, FanTime(early, late, i))]

FanLedger(n, early, late, odd, dir) ==
    CASE dir = "in" -> FanInLedger(n, early, late, odd)
      [] dir = "out" -> FanOutLedger(n, early, late, odd)
      [] OTHER -> FanInLedger(n, early, late, odd) \o FanOutLedger(n, early, late, odd)

FanLates == {5 * Minute, FanWindowMs, FanWindowMs + 1}

FanLedgers ==
    {IF rev THEN Reverse(FanLedger(n, early, late, odd, dir))
            ELSE FanLedger(n, early, late, odd, dir) :
        n \in (FanThreshold - 1)..MaxFan, early \in (FanThreshold - 2)..MaxFan,
        late \in FanLates, odd \in {"none", "dup", "self"},
        dir \in {"in", "out", "both"}, rev \in BOOLEAN}

\* an account V with n transactions: the first `selfs` are self-transfers,
\* the others alternately sent to and received from W; a minute apart,
\* the last one at time `last`
AccV == <<86>>

AccW == <<87>>

MaxVelocityTxs == 6

VelocityTx(n, selfs, last, i) ==
    LET ts == IF i = n THEN last ELSE (i - 1) * Minute
    IN  IF i <= selfs THEN Tx(i, AccV, AccV, 1, ts)
        ELSE IF i % 2 = 0 THEN Tx(i, AccV, AccW, 1, ts)
        ELSE Tx(i, AccW, AccV, 1, ts)

VelocityLasts == {59 * Minute, Hour, Hour + 1, 61 * Minute}

VelocityLedgers ==
    {IF rev THEN Reverse([i \in 1..n |-> VelocityTx(n, selfs, last, i)])
            ELSE [i \in 1..n |-> VelocityTx(n, selfs, last, i)] :
        n \in 1..MaxVelocityTxs, selfs \in 0..MaxVelocityTxs,
        last \in VelocityLasts, rev \in BOOLEAN}

\* a path of n accounts N1 -> N2 -> ... -> Nn; the first account, and the
\* account at position `busy` (0: none), make `boost` self-transfers more,
\* under distinct transaction ids or all under the same id
Node(i) == <<78, 48 + i>>

MaxPath == 9

MaxBoost == 3

PathTxs(n) == [i \in 1..(n - 1) |-> Tx(i, Node(i), Node(i + 1), 1, i * Day)]

BoostTxs(acc, base, boost, sameId) ==
    [i \in 1..boost |->
        Tx(IF sameId THEN base + 1 ELSE base + i, acc, acc, 1,
           MaxPath * Day + (base + i) * Hour)]

ChainLedger(n, busy, boost, sameId) ==
    PathTxs(n) \o BoostTxs(Node(1), 100, boost, sameId)
        \o (IF busy = 0 THEN <<>> ELSE BoostTxs(Node(busy), 200, boost, sameId))

ChainLedgers ==
    {ChainLedger(n, busy, boost, sameId) :
        n \in 3..MaxPath, busy \in {0, 2, 3, MaxPath - 1, MaxPath},
        boost \in (MaxBoost - 1)..MaxBoost, sameId \in BOOLEAN}

Inputs ==
    PoolLedgers \cup TriangleLedgers \cup FanLedgers \cup VelocityLedgers
        \cup ChainLedgers \cup ArrowTailLedgers

\* ------------------------------------------------------------------------
\* State
\* ------------------------------------------------------------------------

VARIABLES
    transactions,         \* the argument of analyzeTransactions
    pc,                   \* position in analyzeTransactions
    calls,                \* calls of analyzeTransactions started so far
    firstResult,          \* what the first call returned (kept by the caller)
    result,               \* what the current call returned
    adj, revAdj, accountTxs, accountTxCounts,
    cycles, fanInAggregators, fanOutDistributors, layeredChains,
    highVelocityAccounts,
    accountScores, accountPatterns, accountRings,
    fraudRings, ringCounter, cycleRingMap, layerRingMap,
    cycleIdx, fanInIdx, fanOutIdx, layerIdx, velocityIdx,
    detector,             \* the detector whose search is followed step by step
    startIdx,             \* start nodes begun by its outer loop
    walk,                 \* its locals: the work stack, the output, the key set
    walkPc,               \* position in the detector
    isLoading, analysis, errors,   \* the state of the upload page
    fileName,             \* the state of the FileUpload component
    uploads               \* the calls of handleUpload, in the order they started

graphVars == <<adj, revAdj, accountTxs, accountTxCounts>>

detectVars == <<cycles, fanInAggregators, fanOutDistributors, layeredChains,
                highVelocityAccounts>>

scoreVars == <<accountScores, accountPatterns, accountRings>>

ringVars == <<fraudRings, ringCounter, cycleRingMap, layerRingMap>>

loopVars == <<cycleIdx, fanInIdx, fanOutIdx, layerIdx, velocityIdx>>

callVars == <<transactions, calls, firstResult, result>>

walkVars == <<detector, startIdx, walk, walkPc>>

pageVars == <<isLoading, analysis, errors, fileName, uploads>>

vars == <<callVars, pc, graphVars, detectVars, scoreVars, ringVars, loopVars,
          walkVars, pageVars>>

\* useState<AnalysisResult | null>(null)
NoAnalysis == [present |-> FALSE, edges |-> <<>>, totalAccountsAnalyzed |-> 0]

\* no detector is followed step by step
WalkIdle ==
    /\ detector = "none" /\ startIdx = 0 /\ walk = [stack |-> <<>>]
    /\ walkPc = "idle"

\* the page as mounted: useState(false), useState(null), useState([])
PageMounted ==
    /\ isLoading = FALSE /\ analysis = NoAnalysis /\ errors = <<>>
    /\ fileName = <<>> /\ uploads = <<>>

NoResult == [nodes |-> <<>>, fraudRings |-> <<>>, edges |-> <<>>,
             processingTimeSeconds |-> 0,
             totalAccountsAnalyzed |-> 0, suspiciousAccountsFlagged |-> 0]

\* let ringCounter = 1
InitRingCounter == 1

MaxCalls == 2

MaxElapsedMs == 12

\* the locals of a call that has just been entered
EnterCall ==
    /\ pc' = "entered"
    /\ adj' = <<>> /\ revAdj' = <<>> /\ accountTxs' = <<>>
    /\ accountTxCounts' = <<>>
    /\ cycles' = <<>> /\ fanInAggregators' = <<>> /\ fanOutDistributors' = <<>>
    /\ layeredChains' = <<>> /\ highVelocityAccounts' = <<>>
    /\ accountScores' = <<>> /\ accountPatterns' = <<>> /\ accountRings' = <<>>
    /\ fraudRings' = <<>> /\ cycleRingMap' = {} /\ layerRingMap' = {}
    /\ cycleIdx' = 0 /\ fanInIdx' = 0 /\ fanOutIdx' = 0 /\ layerIdx' = 0
    /\ velocityIdx' = 0

Init ==
    /\ transactions \in Inputs
    /\ calls = 1
    /\ firstResult = NoResult
    /\ result = NoResult
    /\ pc = "entered"
    /\ adj = <<>> /\ revAdj = <<>> /\ accountTxs = <<>>
    /\ accountTxCounts = <<>>
    /\ cycles = <<>> /\ fanInAggregators = <<>> /\ fanOutDistributors = <<>>
    /\ layeredChains = <<>> /\ highVelocityAccounts = <<>>
    /\ accountScores = <<>> /\ accountPatterns = <<>> /\ accountRings = <<>>
    /\ fraudRings = <<>> /\ ringCounter = 0
    /\ cycleRingMap = {} /\ layerRingMap = {}
    /\ cycleIdx = 0 /\ fanInIdx = 0 /\ fanOutIdx = 0 /\ layerIdx = 0
    /\ velocityIdx = 0
    /\ WalkIdle
    /\ PageMounted

\* ------------------------------------------------------------------------
\* Steps of analyzeTransactions
\* ------------------------------------------------------------------------

\* const { adj, accountTxs } = buildGraph(transactions); the tx counts
BuildGraph ==
    /\ pc = "entered"
    /\ LET g == buildGraph(transactions)
       IN  /\ adj' = g.adj
           /\ revAdj' = g.revAdj
           /\ accountTxs' = g.accountTxs
           /\ accountTxCounts' = TxCountsOf(g.accountTxs)
    /\ pc' = "built"
    /\ UNCHANGED <<callVars, detectVars, scoreVars, ringVars, loopVars>>
    /\ UNCHANGED <<walkVars, pageVars>>

\* a variant in which the counter outlives the call (a module-level counter)
RingCounterShared == IF calls = 1 THEN InitRingCounter ELSE ringCounter

\* let ringCounter = 1, a local of the call
RingCounterAtStart == InitRingCounter

\* a variant in which detectHighVelocity sorts each account's list in place
\* (txs.sort instead of [...txs].sort)
RunDetectionSortsInPlace ==
    /\ pc = "built"
    /\ cycles' = detectCycles(adj)
    /\ fanInAggregators' = detectFanIn(transactions)
    /\ fanOutDistributors' = detectFanOut(transactions)
    /\ layeredChains' = detectLayeredTransfers(adj, accountTxCounts)
    /\ highVelocityAccounts' = detectHighVelocity(accountTxs)
    /\ accountTxs' = [k \in 1..Len(accountTxs) |->
                        <<accountTxs[k][1], SortByTime(accountTxs[k][2])>>]
    /\ ringCounter' = RingCounterAtStart
    /\ pc' = "rings"
    /\ UNCHANGED <<callVars, adj, revAdj, accountTxCounts, scoreVars, fraudRings,
                   cycleRingMap, layerRingMap, loopVars>>
    /\ UNCHANGED <<walkVars, pageVars>>

\* the five detectors, then the empty aggregation maps and ringCounter = 1
RunDetection ==
    /\ pc = "built"
    /\ cycles' = detectCycles(adj)
    /\ fanInAggregators' = detectFanIn(transactions)
    /\ fanOutDistributors' = detectFanOut(transactions)
    /\ layeredChains' = detectLayeredTransfers(adj, accountTxCounts)
    /\ highVelocityAccounts' = detectHighVelocity(accountTxs)
    /\ ringCounter' = RingCounterAtStart
    /\ pc' = "rings"
    /\ UNCHANGED <<callVars, graphVars, scoreVars, fraudRings, cycleRingMap,
                   layerRingMap, loopVars>>
    /\ UNCHANGED <<walkVars, pageVars>>

ScoreState == [accountScores |-> accountScores,
               accountPatterns |-> accountPatterns,
               accountRings |-> accountRings]

SetScoreState(s) ==
    /\ accountScores' = s.accountScores
    /\ accountPatterns' = s.accountPatterns
    /\ accountRings' = s.accountRings

\* one iteration of: for (const cycle of cycles)
CycleRing ==
    /\ pc = "rings"
    /\ cycleIdx < Len(cycles)
    /\ LET cycle == cycles[cycleIdx + 1]
           ringId == RingId(ringCounter)
           s == CycleMembers([k |-> 1, s |-> ScoreState], cycle, ringId)
           key == CycleKey(cycle)
       IN  /\ SetScoreState(s)
           /\ ringCounter' = ringCounter + 1
           /\ IF key \in cycleRingMap
              THEN UNCHANGED <<cycleRingMap, fraudRings>>
              ELSE /\ cycleRingMap' = cycleRingMap \cup {key}
                   /\ fraudRings' =
                        Append(fraudRings, Ring(ringId, cycle, "cycle", s.accountScores))
    /\ cycleIdx' = cycleIdx + 1
    /\ UNCHANGED <<callVars, pc, graphVars, detectVars, layerRingMap,
                   fanInIdx, fanOutIdx, layerIdx, velocityIdx>>
    /\ UNCHANGED <<walkVars, pageVars>>

\* one iteration of: for (const [aggregator, senders] of fanInAggregators)
FanInRing ==
    /\ pc = "rings"
    /\ cycleIdx = Len(cycles)
    /\ fanInIdx < Len(fanInAggregators)
    /\ LET aggregator == fanInAggregators[fanInIdx + 1][1]
           senders == fanInAggregators[fanInIdx + 1][2]
           ringId == RingId(ringCounter)
           s == FanMembers(ScoreState, aggregator, senders, "fan_in_aggregator", ringId)
       IN  /\ SetScoreState(s)
           /\ ringCounter' = ringCounter + 1
           /\ fraudRings' =
                Append(fraudRings, Ring(ringId, <<aggregator>> \o senders,
                                        "fan_in_smurfing", s.accountScores))
    /\ fanInIdx' = fanInIdx + 1
    /\ UNCHANGED <<callVars, pc, graphVars, detectVars, cycleRingMap, layerRingMap,
                   cycleIdx, fanOutIdx, layerIdx, velocityIdx>>
    /\ UNCHANGED <<walkVars, pageVars>>

\* one iteration of: for (const [distributor, receivers] of fanOutDistributors)
FanOutRing ==
    /\ pc = "rings"
    /\ cycleIdx = Len(cycles)
    /\ fanInIdx = Len(fanInAggregators)
    /\ fanOutIdx < Len(fanOutDistributors)
    /\ LET distributor == fanOutDistributors[fanOutIdx + 1][1]
           receivers == fanOutDistributors[fanOutIdx + 1][2]
           ringId == RingId(ringCounter)
           s == FanMembers(ScoreState, distributor, receivers,
                           "fan_out_distributor", ringId)
       IN  /\ SetScoreState(s)
           /\ ringCounter' = ringCounter + 1
           /\ fraudRings' =
                Append(fraudRings, Ring(ringId, <<distributor>> \o receivers,
                                        "fan_out_smurfing", s.accountScores))
    /\ fanOutIdx' = fanOutIdx + 1
    /\ UNCHANGED <<callVars, pc, graphVars, detectVars, cycleRingMap, layerRingMap,
                   cycleIdx, fanInIdx, layerIdx, velocityIdx>>
    /\ UNCHANGED <<walkVars, pageVars>>

\* one iteration of: for (const { chain, shells } of layeredChains)
LayeredRing ==
    /\ pc = "rings"
    /\ cycleIdx = Len(cycles)
    /\ fanInIdx = Len(fanInAggregators)
    /\ fanOutIdx = Len(fanOutDistributors)
    /\ layerIdx < Len(layeredChains)
    /\ LET chain == layeredChains[layerIdx + 1].chain
           shells == layeredChains[layerIdx + 1].shells
           key == ChainKey(chain)
           ringId == RingId(ringCounter)
           s == ShellMembers([k |-> 1, s |-> ScoreState], shells, ringId)
       IN  IF key \in layerRingMap
           THEN UNCHANGED <<scoreVars, ringVars>>
           ELSE /\ layerRingMap' = layerRingMap \cup {key}
                /\ SetScoreState(s)
                /\ ringCounter' = ringCounter + 1
                /\ fraudRings' =
                     Append(fraudRings, Ring(ringId, chain, "layered_transfer",
                                             s.accountScores))
                /\ UNCHANGED cycleRingMap
    /\ layerIdx' = layerIdx + 1
    /\ UNCHANGED <<callVars, pc, graphVars, detectVars,
                   cycleIdx, fanInIdx, fanOutIdx, velocityIdx>>
    /\ UNCHANGED <<walkVars, pageVars>>

\* one iteration of: for (const account of highVelocityAccounts)
VelocityFlag ==
    /\ pc = "rings"
    /\ cycleIdx = Len(cycles)
    /\ fanInIdx = Len(fanInAggregators)
    /\ fanOutIdx = Len(fanOutDistributors)
    /\ layerIdx = Len(layeredChains)
    /\ velocityIdx < Len(highVelocityAccounts)
    /\ SetScoreState(VelocityMember(ScoreState, highVelocityAccounts[velocityIdx + 1]))
    /\ velocityIdx' = velocityIdx + 1
    /\ UNCHANGED <<callVars, pc, graphVars, detectVars, ringVars,
                   cycleIdx, fanInIdx, fanOutIdx, layerIdx>>
    /\ UNCHANGED <<walkVars, pageVars>>

\* the nodes, the edges, the rings' final risk scores and the return value
BuildReport ==
    /\ pc = "rings"
    /\ cycleIdx = Len(cycles)
    /\ fanInIdx = Len(fanInAggregators)
    /\ fanOutIdx = Len(fanOutDistributors)
    /\ layerIdx = Len(layeredChains)
    /\ velocityIdx = Len(highVelocityAccounts)
    /\ \E elapsedMs \in {0, MaxElapsedMs} :
         LET nodes == BuildNodes(MapKeys(adj), transactions, accountTxs,
                                 accountScores, accountPatterns, accountRings)
             rings == UpdateRiskScores(fraudRings, accountScores)
         IN  /\ fraudRings' = rings
             /\ result' = [nodes |-> nodes,
                           fraudRings |-> rings,
                           edges |-> BuildEdges(transactions),
                           processingTimeSeconds |-> ProcessingTime(elapsedMs),
                           totalAccountsAnalyzed |-> Len(MapKeys(adj)),
                           suspiciousAccountsFlagged |-> CountSuspicious(nodes)]
    /\ pc' = "done"
    /\ UNCHANGED <<transactions, calls, firstResult, graphVars, detectVars,
                   scoreVars, ringCounter, cycleRingMap, layerRingMap, loopVars>>
    /\ UNCHANGED <<walkVars, pageVars>>

\* the caller keeps the report and calls analyzeTransactions again on the
\* same transaction sequence
CallAgain ==
    /\ pc = "done"
    /\ calls < MaxCalls
    /\ calls' = calls + 1
    /\ firstResult' = IF calls = 1 THEN result ELSE firstResult
    /\ result' = NoResult
    /\ EnterCall
    /\ UNCHANGED <<transactions, ringCounter>>
    /\ UNCHANGED <<walkVars, pageVars>>

Next ==
    \/ BuildGraph
    \/ RunDetection
    \/ CycleRing
    \/ FanInRing
    \/ FanOutRing
    \/ LayeredRing
    \/ VelocityFlag
    \/ BuildReport
    \/ CallAgain

Spec == Init /\ [][Next]_vars

\* ------------------------------------------------------------------------
\* Notions the properties are stated in
\* ------------------------------------------------------------------------

Returned == pc = "done"

\* the detectors have run (their outputs are set)
Detected == pc \in {"rings", "done"}

NodeIds(rep) == {rep.nodes[i].id : i \in 1..Len(rep.nodes)}

NodesWithId(rep, acc) == {i \in 1..Len(rep.nodes) : rep.nodes[i].id = acc}

NodeOf(rep, acc) == rep.nodes[CHOOSE i \in 1..Len(rep.nodes) : rep.nodes[i].id = acc]

RingsOfType(rep, type) ==
    {i \in 1..Len(rep.fraudRings) : rep.fraudRings[i].pattern_type = type}

\* the accounts that occur in the ledger
Accounts ==
    {transactions[i].sender_id : i \in 1..Len(transactions)}
        \cup {transactions[i].receiver_id : i \in 1..Len(transactions)}

\* b is a direct successor of a: some transaction has sender a, receiver b
Edge(a, b) ==
    \E i \in 1..Len(transactions) :
        transactions[i].sender_id = a /\ transactions[i].receiver_id = b

\* the part of a report that does not depend on the clock
Verdict(rep) ==
    [scores |-> [i \in 1..Len(rep.nodes) |->
                    <<rep.nodes[i].id, rep.nodes[i].suspicionScore,
                      rep.nodes[i].detectedPatterns, rep.nodes[i].ringId>>],
     rings |-> rep.fraudRings,
     totalAccountsAnalyzed |-> rep.totalAccountsAnalyzed,
     suspiciousAccountsFlagged |-> rep.suspiciousAccountsFlagged]

\* "RING_001"
Ring001 == <<82, 73, 78, 71, 95, 48, 48, 49>>

\* b is a direct successor of a in the forward adjacency
Succ(a, b) == MapHas(adj, a) /\ Includes(MapGet(adj, a), b)

\* the simple directed paths of k accounts in the forward adjacency
RECURSIVE SimplePaths(_)
SimplePaths(k) ==
    IF k = 1 THEN {<<a>> : a \in Range(MapKeys(adj))}
    ELSE {Append(pb[1], pb[2]) :
             pb \in {qb \in SimplePaths(k - 1) \X Range(MapKeys(adj)) :
                        /\ Succ(Last(qb[1]), qb[2])
                        /\ ~Includes(qb[1], qb[2])}}

\* p is a simple directed path
IsSimplePath(p) ==
    /\ NoDup(p)
    /\ \A i \in 1..(Len(p) - 1) : Succ(p[i], p[i + 1])

\* the account sets of the simple directed cycles of 3 to 5 accounts
CycleSets ==
    {Range(p) : p \in UNION {{q \in SimplePaths(k) : Succ(Last(q), q[1])} :
                                 k \in 3..5}}

\* the records that touch an account, and the number of distinct
\* transaction ids among them
Touching(a) ==
    {i \in 1..Len(transactions) :
        transactions[i].sender_id = a \/ transactions[i].receiver_id = a}

DistinctTxCount(a) ==
    Cardinality({transactions[i].transaction_id : i \in Touching(a)})

\* the first account is busy (count > 3), every interior account a shell
IsShellChain(p) ==
    /\ DistinctTxCount(p[1]) > 3
    /\ \A i \in 2..(Len(p) - 1) : DistinctTxCount(p[i]) <= 3

\* the simple directed paths of 3 to 8 accounts that are shell chains
ShellChains ==
    UNION {{p \in SimplePaths(k) : IsShellChain(p)} : k \in 3..8}

\* the transactions received by r, and the distinct senders of those in the
\* inclusive 72-hour interval that starts at the incoming transaction i
Incoming(r) == {i \in 1..Len(transactions) : transactions[i].receiver_id = r}

SendersFrom(r, i) ==
    {transactions[j].sender_id :
        j \in {j \in Incoming(r) :
                  /\ transactions[i].timestamp <= transactions[j].timestamp
                  /\ transactions[j].timestamp
                        <= transactions[i].timestamp + 72 * 60 * 60 * 1000}}

\* the incoming transactions of r whose window holds at least 10 senders,
\* and one of the earliest of them
Qualifying(r) == {i \in Incoming(r) : Cardinality(SendersFrom(r, i)) >= 10}

Earliest(r) ==
    CHOOSE i \in Qualifying(r) :
        \A j \in Qualifying(r) : transactions[i].timestamp <= transactions[j].timestamp

\* the transactions of a in the inclusive 1-hour interval that starts at
\* its transaction i
InHourFrom(a, i) ==
    {j \in Touching(a) :
        /\ transactions[i].timestamp <= transactions[j].timestamp
        /\ transactions[j].timestamp <= transactions[i].timestamp + 60 * 60 * 1000}

\* the ledger is exactly a -> b, b -> c, c -> a over three distinct accounts
IsTriangle ==
    /\ Len(transactions) = 3
    /\ \E a, b, c \in Accounts :
          /\ a # b /\ b # c /\ a # c
          /\ {<<transactions[i].sender_id, transactions[i].receiver_id>> :
                 i \in 1..3} = {<<a, b>>, <<b, c>>, <<c, a>>}

\* ------------------------------------------------------------------------
\* Properties
\* ------------------------------------------------------------------------

\* C1: at every point of the aggregation and in the returned report, every
\* account's suspicion score is an integer in [0, 100].
C1_ScoresInRange ==
    /\ \A i \in 1..Len(accountScores) : accountScores[i][2] \in 0..100
    /\ \A i \in 1..Len(result.nodes) : result.nodes[i].suspicionScore \in 0..100

\* C1 witness: during the aggregation an account that is on three processed
\* cycles (3 * 40 > 100) stands at exactly 100.
C1_Witness ==
    /\ pc = "rings"
    /\ \E i \in 1..Len(accountScores) :
          /\ accountScores[i][2] = 100
          /\ Cardinality({c \in 1..cycleIdx :
                             Includes(cycles[c], accountScores[i][1])}) >= 3

\* C2: in a returned report every ring member and every edge end is the id
\* of exactly one node.
C2_ReferencedAccountsAreNodes ==
    Returned =>
      /\ \A r \in 1..Len(result.fraudRings) :
           \A m \in 1..Len(result.fraudRings[r].member_accounts) :
              Cardinality(NodesWithId(result,
                              result.fraudRings[r].member_accounts[m])) = 1
      /\ \A e \in 1..Len(result.edges) :
           /\ Cardinality(NodesWithId(result, result.edges[e].source)) = 1
           /\ Cardinality(NodesWithId(result, result.edges[e].target)) = 1

\* C2 witness: a returned report with edges and with a ring one of whose
\* members was never scored.
C2_Witness ==
    /\ Returned
    /\ Len(result.edges) > 0
    /\ \E r \in 1..Len(result.fraudRings) :
          \E m \in 1..Len(result.fraudRings[r].member_accounts) :
             ~MapHas(accountScores, result.fraudRings[r].member_accounts[m])

\* C3: a second call on the same transaction sequence returns the same
\* scores, tags, ring ids, ring members, risk scores and counters, and
\* numbers its rings from RING_001 again.
C3_SecondCallSameVerdict ==
    (Returned /\ calls >= 2) =>
      /\ Verdict(result) = Verdict(firstResult)
      /\ (result.fraudRings # <<>> => result.fraudRings[1].ring_id = Ring001)

\* C3 witness: the second call has returned a report with several rings,
\* after a first call that took a different time.
C3_Witness ==
    /\ Returned
    /\ calls = 2
    /\ Len(result.fraudRings) >= 2
    /\ result.processingTimeSeconds # firstResult.processingTimeSeconds

\* C4: detectCycles returns exactly one path for each set of 3 to 5 accounts
\* that some simple directed cycle runs through, and nothing else: every
\* returned path is a simple directed cycle of 3 to 5 accounts and no two
\* returned paths have the same account set.
C4_DetectCyclesExact ==
    Detected =>
      /\ \A i \in 1..Len(cycles) :
            /\ Len(cycles[i]) \in 3..5
            /\ IsSimplePath(cycles[i])
            /\ Succ(Last(cycles[i]), cycles[i][1])
      /\ \A i, j \in 1..Len(cycles) :
            Range(cycles[i]) = Range(cycles[j]) => i = j
      /\ {Range(cycles[i]) : i \in 1..Len(cycles)} = CycleSets

\* C5: on a ledger that is exactly a triangle a -> b, b -> c, c -> a the
\* report has exactly one ring, of pattern cycle, with members {a, b, c},
\* and each of the three nodes has the tag cycle_length_3 and the score 40.
C5_TriangleOneCycleRing ==
    (Returned /\ IsTriangle) =>
      /\ Len(result.fraudRings) = 1
      /\ result.fraudRings[1].pattern_type = "cycle"
      /\ Len(result.fraudRings[1].member_accounts) = 3
      /\ Range(result.fraudRings[1].member_accounts) = Accounts
      /\ \A a \in Accounts :
            /\ Includes(NodeOf(result, a).detectedPatterns, "cycle_length_3")
            /\ NodeOf(result, a).suspicionScore = 40

\* C5 witness: the report of a triangle whose records differ in amount and
\* timestamp and do not come in the order of the cycle.
C5_Witness ==
    /\ Returned
    /\ IsTriangle
    /\ transactions[1].amount # transactions[2].amount
    /\ transactions[1].timestamp # transactions[2].timestamp
    /\ transactions[1].receiver_id # transactions[2].sender_id

\* C6: detectFanIn flags a receiver exactly when the inclusive 72-hour
\* window that starts at one of its incoming transactions holds at least 10
\* distinct senders; the recorded list is the distinct-sender set of the
\* earliest such window; and the report has one fan_in_smurfing ring per
\* flagged receiver, the receiver followed by the recorded senders.
C6_FanInEarliestWindow ==
    /\ Detected =>
          /\ NoDup(MapKeys(fanInAggregators))
          /\ Range(MapKeys(fanInAggregators)) =
                {r \in Accounts : Qualifying(r) # {}}
          /\ \A k \in 1..Len(fanInAggregators) :
                /\ NoDup(fanInAggregators[k][2])
                /\ Range(fanInAggregators[k][2]) =
                      SendersFrom(fanInAggregators[k][1],
                                  Earliest(fanInAggregators[k][1]))
    /\ Returned =>
          /\ Cardinality(RingsOfType(result, "fan_in_smurfing"))
                = Len(fanInAggregators)
          /\ {result.fraudRings[i].member_accounts :
                 i \in RingsOfType(result, "fan_in_smurfing")}
                = {<<fanInAggregators[k][1]>> \o fanInAggregators[k][2] :
                     k \in 1..Len(fanInAggregators)}

\* C6 witness: a reported fan-in ring of a receiver and exactly 10 senders
\* although a later window of that receiver holds more senders.
C6_Witness ==
    /\ Returned
    /\ \E k \in 1..Len(fanInAggregators) :
          /\ Len(fanInAggregators[k][2]) = 10
          /\ \E i \in Incoming(fanInAggregators[k][1]) :
                Cardinality(SendersFrom(fanInAggregators[k][1], i)) > 10
          /\ \E r \in RingsOfType(result, "fan_in_smurfing") :
                result.fraudRings[r].member_accounts =
                    <<fanInAggregators[k][1]>> \o fanInAggregators[k][2]

\* C7: detectLayeredTransfers returns exactly the simple directed paths of
\* 3 to 8 accounts whose first account has a distinct-transaction count
\* above 3 and whose interior accounts all have a count of at most 3, each
\* once, and the shells of a returned chain are its interior accounts in
\* path order.
C7_LayeredChainsExact ==
    Detected =>
      /\ {layeredChains[i].chain : i \in 1..Len(layeredChains)} = ShellChains
      /\ \A i, j \in 1..Len(layeredChains) :
            layeredChains[i].chain = layeredChains[j].chain => i = j
      /\ \A i \in 1..Len(layeredChains) :
            layeredChains[i].shells =
                SubSeq(layeredChains[i].chain, 2, Len(layeredChains[i].chain) - 1)

\* C8: for every path a -> b -> c -> d of four accounts in which a and d
\* have a distinct-transaction count above 3 and b and c of at most 3, the
\* report has a layered_transfer ring with the member list [a, b, c, d],
\* b and c carry the tag shell_account and a and d do not.
C8_ShellChainRing ==
    Returned =>
      \A p \in SimplePaths(4) :
         (/\ DistinctTxCount(p[1]) > 3 /\ DistinctTxCount(p[4]) > 3
          /\ DistinctTxCount(p[2]) <= 3 /\ DistinctTxCount(p[3]) <= 3)
         => /\ \E r \in RingsOfType(result, "layered_transfer") :
                  result.fraudRings[r].member_accounts = p
            /\ Includes(NodeOf(result, p[2]).detectedPatterns, "shell_account")
            /\ Includes(NodeOf(result, p[3]).detectedPatterns, "shell_account")
            /\ ~Includes(NodeOf(result, p[1]).detectedPatterns, "shell_account")
            /\ ~Includes(NodeOf(result, p[4]).detectedPatterns, "shell_account")

\* C9: detectHighVelocity flags an account exactly when the inclusive
\* 1-hour window that starts at one of its transactions holds at least 5 of
\* the transactions it sent or received.
C9_VelocityExact ==
    Detected =>
      \A a \in Accounts :
         Includes(highVelocityAccounts, a)
           <=> \E i \in Touching(a) : Cardinality(InHourFrom(a, i)) >= 5

\* C10: on the empty transaction sequence the call returns a report with no
\* nodes, edges or rings and both counters 0.
C10_EmptyLedgerEmptyReport ==
    (Returned /\ transactions = <<>>) =>
      /\ result.nodes = <<>>
      /\ result.edges = <<>>
      /\ result.fraudRings = <<>>
      /\ result.totalAccountsAnalyzed = 0
      /\ result.suspiciousAccountsFlagged = 0

\* C10 witness: the call on the empty sequence has returned.
C10_Witness == Returned /\ transactions = <<>> /\ calls = 1

\* C11: on a ledger in which a single account occurs (every record is a
\* self-transfer of it) the report has no rings and no flagged account.
C11_SingleAccountEmptyReport ==
    (Returned /\ Cardinality(Accounts) = 1) =>
      /\ result.fraudRings = <<>>
      /\ result.suspiciousAccountsFlagged = 0

\* the findings of the five detectors about one account
Detectors == {"cycle", "fan_in", "fan_out", "layered", "velocity"}

\* the accounts of a chain other than its first and its last
Interior(chain) == SubSeq(chain, 2, Len(chain) - 1)

FindingCount(a, d) ==
    CASE d = "cycle" ->
           Cardinality({k \in 1..Len(cycles) : a \in Range(cycles[k])})
      [] d = "fan_in" ->
           IF \E k \in 1..Len(fanInAggregators) : fanInAggregators[k][1] = a
           THEN 1 ELSE 0
      [] d = "fan_out" ->
           IF \E k \in 1..Len(fanOutDistributors) : fanOutDistributors[k][1] = a
           THEN 1 ELSE 0
      [] d = "layered" ->
           Cardinality({k \in 1..Len(layeredChains) :
                          a \in Range(Interior(layeredChains[k].chain))})
      [] d = "velocity" ->
           IF a \in Range(highVelocityAccounts) THEN 1 ELSE 0

FindingScore(d) ==
    CASE d = "cycle" -> CycleScore
      [] d = "fan_in" -> FanScore
      [] d = "fan_out" -> FanScore
      [] d = "layered" -> ShellScore
      [] d = "velocity" -> VelocityScore

\* the weighted sum of the findings; count[d] is the number of findings of
\* detector d about one account
WeightedSumOf(count) ==
    CycleScore * count["cycle"] + FanScore * count["fan_in"]
      + FanScore * count["fan_out"] + ShellScore * count["layered"]
      + VelocityScore * count["velocity"]

FindingCounts(a) == [d \in Detectors |-> FindingCount(a, d)]

WeightedSum(a) == WeightedSumOf(FindingCounts(a))

\* n saturating additions of w
RECURSIVE AddTimes(_, _, _)
AddTimes(cur, w, n) ==
    IF n = 0 THEN cur ELSE AddTimes(Min(MaxScore, cur + w), w, n - 1)

\* the five detectors in the order in which analyzeTransactions applies them
DetectorOrder == <<"cycle", "fan_in", "fan_out", "layered", "velocity">>

\* the orders in which the five detector outputs can be applied
DetectorOrders ==
    {[k \in 1..5 |-> p[DetectorOrder[k]]] : p \in Permutations(Detectors)}

FindingScores == [d \in Detectors |-> FindingScore(d)]

\* the score after the findings were applied in the given order; count[d]
\* is the number of findings of detector d about the account
ScoreInOrder(count, order) ==
    LET step(cur, k) == AddTimes(cur, FindingScores[order[k]], count[order[k]])
    IN  step(step(step(step(step(0, 1), 2), 3), 4), 5)

\* the orders that differ for an account: a detector without findings
\* about it applies nothing, so with findings of at most one detector
\* every order applies the same additions
OrdersFor(count) ==
    IF Cardinality({d \in Detectors : count[d] > 0}) >= 2
    THEN DetectorOrders ELSE {DetectorOrder}

\* C12: the final score of every account is min(100, 40c + 25i + 25o + 30s
\* + 10v) over the detector outputs, and it is the score that results from
\* applying the five detector outputs in any order.
C12_ScoreIsCappedWeightedSum ==
    Returned =>
      \A count \in {FindingCounts(a) : a \in NodeIds(result)} :
        LET capped == Min(MaxScore, WeightedSumOf(count))
        IN  /\ \A k \in 1..Len(result.nodes) :
                 FindingCounts(result.nodes[k].id) = count
                   => result.nodes[k].suspicionScore = capped
            /\ \A order \in OrdersFor(count) : ScoreInOrder(count, order) = capped

\* C12 witness: an account with findings of two detectors whose weighted
\* sum exceeds the cap.
C12_Witness ==
    /\ Returned
    /\ \E k \in 1..Len(result.nodes) :
         LET a == result.nodes[k].id
         IN  /\ WeightedSum(a) > MaxScore
             /\ Cardinality({d \in Detectors : FindingCount(a, d) > 0}) >= 2

\* a ring attributes an account that is one of its members; a chain ring
\* attributes only its interior accounts
Attributes(ring, a) ==
    IF ring.pattern_type = "layered_transfer"
    THEN a \in Range(Interior(ring.member_accounts))
    ELSE a \in Range(ring.member_accounts)

AttributingRings(rep, a) ==
    {k \in 1..Len(rep.fraudRings) : Attributes(rep.fraudRings[k], a)}

FirstOf(S) == CHOOSE k \in S : \A j \in S : k <= j

\* the ring of every account is the first ring, in list order, that
\* attributes it, and an account no ring attributes has none
RingIdIsFirstAttribution ==
    Returned =>
      \A k \in 1..Len(result.nodes) :
        LET n == result.nodes[k]
            S == AttributingRings(result, n.id)
        IN  IF S = {} THEN n.ringId = Undefined
            ELSE n.ringId = result.fraudRings[FirstOf(S)].ring_id

\* within a call an entry of accountRings is never replaced or removed
RingIdKept ==
    pc' # "entered" =>
      \A k \in 1..Len(accountRings) :
        LET a == accountRings[k][1]
        IN  /\ MapHas(accountRings', a)
            /\ MapGet(accountRings', a) = MapGet(accountRings, a)

\* C13: an account's ringId is set at most once and never overwritten; it
\* is the id of the first ring, in the processing order cycles, fan-in,
\* fan-out, shell chains, that attributes the account; velocity findings
\* and being the start or the end of a chain assign none.
C13_RingIdFirstRingWins == [] RingIdIsFirstAttribution /\ [][RingIdKept]_vars

\* C13 witness: one account is attributed by two rings, and another is an
\* end of a chain ring and has no ring.
C13_Witness ==
    /\ Returned
    /\ \E k \in 1..Len(result.nodes) :
         Cardinality(AttributingRings(result, result.nodes[k].id)) >= 2
    /\ \E k \in 1..Len(result.nodes), r \in 1..Len(result.fraudRings) :
         /\ result.fraudRings[r].pattern_type = "layered_transfer"
         /\ result.nodes[k].id \in Range(result.fraudRings[r].member_accounts)
         /\ result.nodes[k].ringId = Undefined

\* the sum of the final scores of the members of a ring, each occurrence
\* of a member counted
MemberScoreSum(rep, ring) ==
    SumSeq([k \in 1..Len(ring.member_accounts) |->
              NodeOf(rep, ring.member_accounts[k]).suspicionScore])

\* t tenths is the mean sum / n rounded to one decimal
IsRoundedMean(t, sum, n) == 2 * n * t - n <= 20 * sum /\ 20 * sum <= 2 * n * t + n

\* C14: every ring's risk_score in the report is the mean of the final
\* scores of its member_accounts rounded to one decimal, not the value
\* computed when the ring was created.
C14_RiskIsMeanOfFinalScores ==
    Returned =>
      \A k \in 1..Len(result.fraudRings) :
        LET ring == result.fraudRings[k]
        IN  IsRoundedMean(ring.risk_score, MemberScoreSum(result, ring),
                          Len(ring.member_accounts))

\* C14 witness: a ring with a member that was scored for high velocity,
\* hence after the ring was created, without reaching the cap.
C14_Witness ==
    /\ Returned
    /\ \E k \in 1..Len(result.fraudRings) :
         \E a \in Range(result.fraudRings[k].member_accounts) :
           /\ Includes(NodeOf(result, a).detectedPatterns, "high_velocity")
           /\ NodeOf(result, a).suspicionScore < MaxScore

\* the member lists and pattern types the four detector outputs call for,
\* in processing order
ExpectedRings ==
    [k \in 1..Len(cycles) |-> [members |-> cycles[k], type |-> "cycle"]]
    \o [k \in 1..Len(fanInAggregators) |->
          [members |-> <<fanInAggregators[k][1]>> \o fanInAggregators[k][2],
           type |-> "fan_in_smurfing"]]
    \o [k \in 1..Len(fanOutDistributors) |->
          [members |-> <<fanOutDistributors[k][1]>> \o fanOutDistributors[k][2],
           type |-> "fan_out_smurfing"]]
    \o [k \in 1..Len(layeredChains) |->
          [members |-> layeredChains[k].chain, type |-> "layered_transfer"]]

\* C15: the ring list holds exactly one ring per detected cycle account
\* set, per fan-in aggregator, per fan-out distributor and per detected
\* chain path, so its length is the sum of the four detector output sizes;
\* a fan ring's members are the hub followed by all recorded
\* counterparties, those with score 0 included.
C15_OneRingPerFinding ==
    Returned =>
      /\ Len(result.fraudRings) =
           Len(cycles) + Len(fanInAggregators) + Len(fanOutDistributors)
             + Len(layeredChains)
      /\ [k \in 1..Len(result.fraudRings) |->
            [members |-> result.fraudRings[k].member_accounts,
             type |-> result.fraudRings[k].pattern_type]] = ExpectedRings
      /\ \A j, k \in RingsOfType(result, "cycle") :
           Range(result.fraudRings[j].member_accounts)
             = Range(result.fraudRings[k].member_accounts) => j = k
      /\ \A type \in {"fan_in_smurfing", "fan_out_smurfing", "layered_transfer"} :
           \A j, k \in RingsOfType(result, type) :
             result.fraudRings[j].member_accounts[1]
               = result.fraudRings[k].member_accounts[1]
             /\ (type = "layered_transfer" =>
                   result.fraudRings[j].member_accounts
                     = result.fraudRings[k].member_accounts)
             => j = k

\* C15 witness: a report with rings of two pattern types, one of them a
\* fan ring with a counterparty of score 0.
C15_Witness ==
    /\ Returned
    /\ \E j, k \in 1..Len(result.fraudRings) :
         /\ result.fraudRings[j].pattern_type # result.fraudRings[k].pattern_type
         /\ result.fraudRings[j].pattern_type = "fan_in_smurfing"
         /\ \E a \in Range(result.fraudRings[j].member_accounts) :
              NodeOf(result, a).suspicionScore = 0

\* the positions of the records, or of the edges, from a to b
TxsBetween(a, b) ==
    {i \in 1..Len(transactions) :
       transactions[i].sender_id = a /\ transactions[i].receiver_id = b}

EdgesBetween(rep, a, b) ==
    {i \in 1..Len(rep.edges) : rep.edges[i].source = a /\ rep.edges[i].target = b}

\* C16: the edge list has one edge per input record, in input order, with
\* that record's sender, receiver, amount and timestamp; k records between
\* the same ordered account pair give k edges.
C16_OneEdgePerRecord ==
    Returned =>
      /\ Len(result.edges) = Len(transactions)
      /\ \A i \in 1..Len(result.edges) :
           /\ result.edges[i].source = transactions[i].sender_id
           /\ result.edges[i].target = transactions[i].receiver_id
           /\ result.edges[i].amount = transactions[i].amount
           /\ result.edges[i].timestamp = transactions[i].timestamp
      /\ \A i \in 1..Len(transactions) :
           LET a == transactions[i].sender_id
               b == transactions[i].receiver_id
           IN  Cardinality(EdgesBetween(result, a, b)) = Cardinality(TxsBetween(a, b))
      /\ \A i \in 1..Len(result.edges) :
           TxsBetween(result.edges[i].source, result.edges[i].target) # {}

\* C16 witness: three records from one account to another, at different
\* times, in a returned report.
C16_Witness ==
    /\ Returned
    /\ \E a, b \in Accounts :
         /\ a # b
         /\ Cardinality(TxsBetween(a, b)) >= 3
         /\ Cardinality({transactions[i].timestamp : i \in TxsBetween(a, b)}) >= 3

\* C17: the node list has exactly one node per distinct account id seen as
\* sender or receiver, totalAccountsAnalyzed is that number, a node's
\* isSuspicious is true exactly when its suspicionScore > 0, and
\* suspiciousAccountsFlagged is the number of nodes with suspicionScore > 0.
C17_NodesAndCounters ==
    Returned =>
      /\ NodeIds(result) = Accounts
      /\ \A a \in Accounts : Cardinality(NodesWithId(result, a)) = 1
      /\ result.totalAccountsAnalyzed = Cardinality(Accounts)
      /\ \A k \in 1..Len(result.nodes) :
           result.nodes[k].isSuspicious <=> result.nodes[k].suspicionScore > 0
      /\ result.suspiciousAccountsFlagged =
           Cardinality({k \in 1..Len(result.nodes) :
                          result.nodes[k].suspicionScore > 0})

\* C17 witness: a report with a suspicious and an unsuspicious node, the
\* latter with a ring, and an account that occurs several times and one
\* that occurs only as receiver.
C17_Witness ==
    /\ Returned
    /\ \E j, k \in 1..Len(result.nodes) :
         /\ result.nodes[j].suspicionScore > 0
         /\ result.nodes[k].suspicionScore = 0
         /\ result.nodes[k].ringId # Undefined
    /\ \E a \in Accounts :
         /\ \A i \in 1..Len(transactions) : transactions[i].sender_id # a
         /\ Cardinality({i \in 1..Len(transactions) :
                           transactions[i].receiver_id = a}) >= 2

\* C18: an account's transaction count, in its node and in the counts the
\* shell threshold is applied to, is the number of distinct transaction ids
\* among the records touching it: a repeated id or a self-transfer does
\* not count twice.
C18_TxCountIsDistinctIds ==
    Returned =>
      \A a \in Accounts :
        /\ NodeOf(result, a).txCount = DistinctTxCount(a)
        /\ TxCount(accountTxCounts, a) = DistinctTxCount(a)

\* C18 witness: an account with self-transfers, some of them with the same
\* transaction id, whose count is below the number of records touching it.
C18_Witness ==
    /\ Returned
    /\ \E a \in Accounts :
         /\ \E i, j \in Touching(a) :
              /\ i # j
              /\ transactions[i].transaction_id = transactions[j].transaction_id
              /\ transactions[i].sender_id = transactions[i].receiver_id
         /\ NodeOf(result, a).txCount < Cardinality(Touching(a))
         /\ NodeOf(result, a).txCount > 1

\* the records touching an account in input order, each listed once as
\* sent and once as received: slot 2i - 1 is record i as sent, slot 2i is
\* record i as received
ListedRecords(a) ==
    LET slots == SelectSeq([k \in 1..(2 * Len(transactions)) |-> k],
                           LAMBDA k :
                             IF k % 2 = 1
                             THEN transactions[(k + 1) \div 2].sender_id = a
                             ELSE transactions[k \div 2].receiver_id = a)
    IN  [j \in 1..Len(slots) |-> transactions[(slots[j] + 1) \div 2]]

\* C19: after buildGraph every account that occurs as sender or receiver
\* is a key of adj, of revAdj and of accountTxs; b is in adj[a] exactly
\* when a is in revAdj[b], exactly when some record has sender a and
\* receiver b; and the list of an account holds the records touching it in
\* input order (a record the account both sent and received is listed as
\* sent and as received).
C19_BuildGraphMaps ==
    pc = "built" =>
      /\ Range(MapKeys(adj)) = Accounts /\ NoDup(MapKeys(adj))
      /\ Range(MapKeys(revAdj)) = Accounts /\ NoDup(MapKeys(revAdj))
      /\ Range(MapKeys(accountTxs)) = Accounts /\ NoDup(MapKeys(accountTxs))
      /\ \A a, b \in Accounts :
           /\ Includes(MapGet(adj, a), b) <=> Edge(a, b)
           /\ Includes(MapGet(revAdj, b), a) <=> Edge(a, b)
      /\ \A a \in Accounts :
           /\ MapGet(accountTxs, a) = ListedRecords(a)
           /\ Range(MapGet(accountTxs, a)) = {transactions[i] : i \in Touching(a)}

\* C19 witness: buildGraph has returned on a ledger with an account that
\* has a self-transfer and a record with another account, and with two
\* records between the same ordered pair of different accounts.
C19_Witness ==
    /\ pc = "built"
    /\ \E a, b \in Accounts :
         /\ a # b
         /\ Edge(a, a)
         /\ Cardinality(TxsBetween(a, b)) >= 2

\* the fan-out condition: some transaction sent by s opens an inclusive
\* 72-hour window with at least 10 distinct receivers
Outgoing(s) == {i \in 1..Len(transactions) : transactions[i].sender_id = s}

ReceiversFrom(s, i) ==
    {transactions[j].receiver_id :
        j \in {j \in Outgoing(s) :
                  /\ transactions[i].timestamp <= transactions[j].timestamp
                  /\ transactions[j].timestamp
                        <= transactions[i].timestamp + 72 * 60 * 60 * 1000}}

QualifyingOut(s) == {i \in Outgoing(s) : Cardinality(ReceiversFrom(s, i)) >= 10}

\* the accounts that satisfy the fan-in and the fan-out condition
BothFans == {a \in Accounts : Qualifying(a) # {} /\ QualifyingOut(a) # {}}

\* the rings of a pattern type whose first member, the hub, is a
RingsWithHub(rep, type, a) ==
    {k \in RingsOfType(rep, type) : rep.fraudRings[k].member_accounts[1] = a}

\* C20: an account that satisfies both the fan-in and the fan-out
\* condition has both tags fan_in_aggregator and fan_out_distributor, gets
\* 25 + 25 from the two findings, and is the hub of one fan_in_smurfing
\* ring and of one fan_out_smurfing ring.
C20_BothFansFlagged ==
    Returned =>
      \A a \in BothFans :
        LET n == NodeOf(result, a)
        IN  /\ Includes(n.detectedPatterns, "fan_in_aggregator")
            /\ Includes(n.detectedPatterns, "fan_out_distributor")
            /\ n.suspicionScore =
                 Min(MaxScore,
                     FanScore + FanScore
                       + CycleScore * FindingCount(a, "cycle")
                       + ShellScore * FindingCount(a, "layered")
                       + VelocityScore * FindingCount(a, "velocity"))
            /\ n.suspicionScore >= FanScore + FanScore
            /\ Cardinality(RingsWithHub(result, "fan_in_smurfing", a)) = 1
            /\ Cardinality(RingsWithHub(result, "fan_out_smurfing", a)) = 1

\* C20 witness: a returned report on a ledger with an account that
\* satisfies both conditions.
C20_Witness == Returned /\ BothFans # {}

\* the decimal digits of k, zero-padded to three places, as code units
ThreeDigits(k) ==
    IF k < 1000
    THEN <<48 + (k \div 100), 48 + ((k \div 10) % 10), 48 + (k % 10)>>
    ELSE DecimalString(k)

\* C21: ring ids are sequential without gaps or repeats: the k-th ring of
\* the returned list has the id RING_ followed by k zero-padded to three
\* digits, so the ids of a report are pairwise distinct.
C21_RingIdsSequential ==
    Returned =>
      /\ \A k \in 1..Len(result.fraudRings) :
           result.fraudRings[k].ring_id = <<82, 73, 78, 71, 95>> \o ThreeDigits(k)
      /\ \A j, k \in 1..Len(result.fraudRings) :
           result.fraudRings[j].ring_id = result.fraudRings[k].ring_id => j = k

\* C21 witness: a report with at least five rings of at least two pattern
\* types, returned by the second call.
C21_Witness ==
    /\ Returned
    /\ calls = 2
    /\ Len(result.fraudRings) >= 5
    /\ \E j, k \in 1..Len(result.fraudRings) :
         result.fraudRings[j].pattern_type # result.fraudRings[k].pattern_type

\* the step in which the five detectors run leaves their inputs as they
\* were, and each output is the detector's value on those inputs alone
DetectorsFrame ==
    (pc = "built" /\ pc' = "rings") =>
      /\ transactions' = transactions
      /\ adj' = adj
      /\ accountTxs' = accountTxs
      /\ accountTxCounts' = accountTxCounts
      /\ cycles' = detectCycles(adj')
      /\ fanInAggregators' = detectFanIn(transactions')
      /\ fanOutDistributors' = detectFanOut(transactions')
      /\ layeredChains' = detectLayeredTransfers(adj', accountTxCounts')
      /\ highVelocityAccounts' = detectHighVelocity(accountTxs')

\* C23: none of the five detectors modifies its inputs: after they ran,
\* the transaction sequence, the adjacency map, the per-account lists and
\* the count map are unchanged, so no output depends on the order in which
\* the detectors run.
C23_DetectorsReadOnly == [][DetectorsFrame]_vars

\* C23 witness: the detectors have run on a ledger in which a list is not
\* in time order (the detectors sort), and two of them have findings.
C23_Witness ==
    /\ pc = "rings"
    /\ \E k \in 1..Len(accountTxs) :
         \E i \in 1..(Len(accountTxs[k][2]) - 1) :
           accountTxs[k][2][i].timestamp > accountTxs[k][2][i + 1].timestamp
    /\ fanInAggregators # <<>>
    /\ highVelocityAccounts # <<>>

\* C24: every ring of the report has a non-empty member list and at least
\* one member whose final suspicion score is greater than 0.
C24_RingsHaveScoredMember ==
    Returned =>
      \A k \in 1..Len(result.fraudRings) :
        /\ result.fraudRings[k].member_accounts # <<>>
        /\ \E a \in Range(result.fraudRings[k].member_accounts) :
             NodeOf(result, a).suspicionScore > 0

\* C24 witness: a chain ring whose two ends have score 0 and whose interior
\* accounts are in no other kind of ring.
C24_Witness ==
    /\ Returned
    /\ \E k \in RingsOfType(result, "layered_transfer") :
         LET members == result.fraudRings[k].member_accounts
         IN  /\ NodeOf(result, members[1]).suspicionScore = 0
             /\ NodeOf(result, Last(members)).suspicionScore = 0
             /\ \A a \in Range(Interior(members)) :
                  NodeOf(result, a).detectedPatterns = <<"shell_account">>

\* C25: no ring's member_accounts list holds the same account twice, also
\* on inputs with self-transfers.
C25_RingMembersDistinct ==
    Returned =>
      \A k \in 1..Len(result.fraudRings) :
        NoDup(result.fraudRings[k].member_accounts)

\* C26: whenever a node's ringId is set, a ring with that id is in the
\* report's ring list and the node's account is one of its member_accounts.
C26_RingIdNamesOwnRing ==
    Returned =>
      \A k \in 1..Len(result.nodes) :
        result.nodes[k].ringId # Undefined =>
          \E r \in 1..Len(result.fraudRings) :
            /\ result.fraudRings[r].ring_id = result.nodes[k].ringId
            /\ Includes(result.fraudRings[r].member_accounts, result.nodes[k].id)

\* C26 witness: two nodes with different rings, neither of them the
\* first member of its ring.
C26_Witness ==
    /\ Returned
    /\ \E j, k \in 1..Len(result.nodes) :
         /\ result.nodes[j].ringId # Undefined
         /\ result.nodes[k].ringId # Undefined
         /\ result.nodes[j].ringId # result.nodes[k].ringId
         /\ \A r \in 1..Len(result.fraudRings) :
              /\ result.fraudRings[r].member_accounts[1] # result.nodes[j].id
              /\ result.fraudRings[r].member_accounts[1] # result.nodes[k].id

\* C27: in every report a node has a suspicion score greater than 0
\* exactly when its detectedPatterns list is non-empty.
C27_ScoreIffPattern ==
    Returned =>
        \A k \in 1..Len(result.nodes) :
            (result.nodes[k].suspicionScore > 0)
                <=> (result.nodes[k].detectedPatterns # <<>>)

\* C27 witness: a report with a tagged, scored node next to a node of a
\* ring that has neither score nor tag.
C27_Witness ==
    /\ Returned
    /\ \E j, k \in 1..Len(result.nodes) :
         /\ result.nodes[j].suspicionScore > 0
         /\ result.nodes[j].detectedPatterns # <<>>
         /\ result.nodes[k].suspicionScore = 0
         /\ result.nodes[k].detectedPatterns = <<>>
         /\ result.nodes[k].ringId # Undefined

\* the flagged hubs of a fan result, each with the set of its recorded
\* counterparties
FanSets(m) == {<<m[k][1], Range(m[k][2])>> : k \in 1..Len(m)}

\* the records at the even positions, then those at the odd positions
EvensThenOdds(s) ==
    [i \in 1..Len(s) |->
        IF i <= Len(s) \div 2 THEN s[2 * i] ELSE s[2 * (i - Len(s) \div 2) - 1]]

\* the first record moved behind the others
Rotated(s) == IF s = <<>> THEN s ELSE Append(Tail(s), s[1])

Rearranged(txs) == {Reverse(txs), EvensThenOdds(txs), Rotated(txs)}

SharedTimestamp(txs) ==
    \E i, j \in 1..Len(txs) : i # j /\ txs[i].timestamp = txs[j].timestamp

FirstDetection == pc = "rings" /\ calls = 1 /\ ringCounter = RingCounterAtStart

\* C28: the receivers flagged by detectFanIn and the set of senders
\* recorded for each do not change when the transaction records are
\* rearranged; likewise for detectFanOut.
C28_FanSetsOrderFree ==
    FirstDetection =>
        \A txs \in Rearranged(transactions) :
            /\ FanSets(detectFanIn(txs)) = FanSets(fanInAggregators)
            /\ FanSets(detectFanOut(txs)) = FanSets(fanOutDistributors)

\* C28 witness: records that share a timestamp, a flagged aggregator and a
\* flagged distributor, and a rearrangement that changes the order of the
\* recorded senders.
C28_Witness ==
    /\ FirstDetection
    /\ SharedTimestamp(transactions)
    /\ fanInAggregators # <<>>
    /\ fanOutDistributors # <<>>
    /\ detectFanIn(Reverse(transactions)) # fanInAggregators

\* the chains returned by detectLayeredTransfers
ReturnedChains == [k \in 1..Len(layeredChains) |-> layeredChains[k].chain]

\* C29: the output of detectLayeredTransfers is prefix-closed and
\* duplicate-free: with a chain of n >= 4 accounts its prefix of each
\* length 3..n-1 is returned too, and no ordered path is returned twice.
C29_ChainsPrefixClosed ==
    pc = "rings" =>
        /\ NoDup(ReturnedChains)
        /\ \A k \in 1..Len(ReturnedChains) :
             \A m \in MinChainLen..(Len(ReturnedChains[k]) - 1) :
                Includes(ReturnedChains, SubSeq(ReturnedChains[k], 1, m))

\* ------------------------------------------------------------------------
\* detectCycles and detectLayeredTransfers, one stack entry at a time
\* ------------------------------------------------------------------------

\* the graphs searched: a ring with chords, a dense graph with a 2-cycle
\* and a self-transfer, ids that collide in the keys, and paths of shells
SearchInputs ==
    {DensePool, LongPool, CommaPool, ArrowPool, ArrowTailPool} \cup ChainLedgers

\* const allCycles = [], cycleSet = new Set();
\* const layeredChains = [], foundChains = new Set(); the locals of the
\* while loop: the popped entry and the position j in its neighbours
EmptyWalk(d) ==
    IF d = "cycles"
    THEN [stack |-> <<>>, allCycles |-> <<>>, cycleSet |-> {},
          node |-> <<>>, path |-> <<>>, j |-> 0]
    ELSE [stack |-> <<>>, layeredChains |-> <<>>, foundChains |-> {},
          node |-> <<>>, path |-> <<>>, shells |-> <<>>, j |-> 0]

\* analyzeTransactions is entered with a ledger; one of the two searching
\* detectors will be followed
InitSearch ==
    /\ transactions \in SearchInputs
    /\ calls = 1
    /\ firstResult = NoResult
    /\ result = NoResult
    /\ pc = "entered"
    /\ adj = <<>> /\ revAdj = <<>> /\ accountTxs = <<>>
    /\ accountTxCounts = <<>>
    /\ cycles = <<>> /\ fanInAggregators = <<>> /\ fanOutDistributors = <<>>
    /\ layeredChains = <<>> /\ highVelocityAccounts = <<>>
    /\ accountScores = <<>> /\ accountPatterns = <<>> /\ accountRings = <<>>
    /\ fraudRings = <<>> /\ ringCounter = 0
    /\ cycleRingMap = {} /\ layerRingMap = {}
    /\ cycleIdx = 0 /\ fanInIdx = 0 /\ fanOutIdx = 0 /\ layerIdx = 0
    /\ velocityIdx = 0
    /\ detector \in {"cycles", "layered"}
    /\ startIdx = 0
    /\ walk = EmptyWalk(detector)
    /\ walkPc = "loop"
    /\ PageMounted

Searching == pc = "built" /\ walkPc \in {"loop", "visit"}

\* for (const startNode of nodes) { const stack = [{ node, path }]; ...
CycleStartNode ==
    /\ pc = "built" /\ walkPc = "loop" /\ detector = "cycles"
    /\ walk.stack = <<>>
    /\ startIdx < Len(adj)
    /\ startIdx' = startIdx + 1
    /\ walk' = [walk EXCEPT !.stack =
                    <<[node |-> adj[startIdx + 1][1],
                       path |-> <<adj[startIdx + 1][1]>>]>>]
    /\ UNCHANGED <<callVars, pc, graphVars, detectVars, scoreVars, ringVars,
                   loopVars, detector, walkPc, pageVars>>

\* while (stack.length > 0) { const { node, path } = stack.pop(); ...
CycleStackPop ==
    /\ pc = "built" /\ walkPc = "loop" /\ detector = "cycles"
    /\ walk.stack # <<>>
    /\ walk' = [walk EXCEPT !.stack = Front(@),
                            !.node = Last(walk.stack).node,
                            !.path = Last(walk.stack).path,
                            !.j = 1]
    /\ walkPc' = "visit"
    /\ UNCHANGED <<callVars, pc, graphVars, detectVars, scoreVars, ringVars,
                   loopVars, detector, startIdx, pageVars>>

\* one iteration of: for (const neighbor of neighbors) in detectCycles, or
\* the end of that loop
CycleNeighbor ==
    /\ pc = "built" /\ walkPc = "visit" /\ detector = "cycles"
    /\ LET neighbors == MapGetOr(adj, walk.node, <<>>)
       IN  IF walk.j > Len(neighbors)
           THEN walkPc' = "loop" /\ UNCHANGED walk
           ELSE /\ walk' = [CycleVisit(walk, adj[startIdx][1], walk.path,
                                       neighbors[walk.j], CycleMaxLen)
                               EXCEPT !.j = walk.j + 1]
                /\ UNCHANGED walkPc
    /\ UNCHANGED <<callVars, pc, graphVars, detectVars, scoreVars, ringVars,
                   loopVars, detector, startIdx, pageVars>>

\* for (const startNode of nodes) { if (startTxCount <= 3) continue;
\* const stack = [{ node, path, shells }]; ...
LayerStartNode ==
    /\ pc = "built" /\ walkPc = "loop" /\ detector = "layered"
    /\ walk.stack = <<>>
    /\ startIdx < Len(adj)
    /\ startIdx' = startIdx + 1
    /\ walk' = IF TxCount(accountTxCounts, adj[startIdx + 1][1]) <= ShellThreshold
               THEN walk
               ELSE [walk EXCEPT !.stack =
                        <<[node |-> adj[startIdx + 1][1],
                           path |-> <<adj[startIdx + 1][1]>>,
                           shells |-> <<>>]>>]
    /\ UNCHANGED <<callVars, pc, graphVars, detectVars, scoreVars, ringVars,
                   loopVars, detector, walkPc, pageVars>>

\* while (stack.length > 0) { const { node, path, shells } = stack.pop(); ...
LayerStackPop ==
    /\ pc = "built" /\ walkPc = "loop" /\ detector = "layered"
    /\ walk.stack # <<>>
    /\ walk' = [walk EXCEPT !.stack = Front(@),
                            !.node = Last(walk.stack).node,
                            !.path = Last(walk.stack).path,
                            !.shells = Last(walk.stack).shells,
                            !.j = 1]
    /\ walkPc' = "visit"
    /\ UNCHANGED <<callVars, pc, graphVars, detectVars, scoreVars, ringVars,
                   loopVars, detector, startIdx, pageVars>>

\* one iteration of: for (const neighbor of neighbors) in
\* detectLayeredTransfers, or the end of that loop
LayerNeighbor ==
    /\ pc = "built" /\ walkPc = "visit" /\ detector = "layered"
    /\ LET neighbors == MapGetOr(adj, walk.node, <<>>)
       IN  IF walk.j > Len(neighbors)
           THEN walkPc' = "loop" /\ UNCHANGED walk
           ELSE /\ walk' = [LayerVisit(walk, accountTxCounts, walk.path,
                                       walk.shells, neighbors[walk.j])
                               EXCEPT !.j = walk.j + 1]
                /\ UNCHANGED walkPc
    /\ UNCHANGED <<callVars, pc, graphVars, detectVars, scoreVars, ringVars,
                   loopVars, detector, startIdx, pageVars>>

\* return allCycles; return layeredChains
SearchReturn ==
    /\ pc = "built" /\ walkPc = "loop"
    /\ walk.stack = <<>>
    /\ startIdx = Len(adj)
    /\ walkPc' = "returned"
    /\ IF detector = "cycles"
       THEN cycles' = walk.allCycles /\ UNCHANGED layeredChains
       ELSE layeredChains' = walk.layeredChains /\ UNCHANGED cycles
    /\ UNCHANGED <<callVars, pc, graphVars, fanInAggregators, fanOutDistributors,
                   highVelocityAccounts, scoreVars, ringVars, loopVars,
                   detector, startIdx, walk, pageVars>>

\* the steps of a detector that has been entered
SearchStep ==
    \/ CycleStartNode
    \/ CycleStackPop
    \/ CycleNeighbor
    \/ LayerStartNode
    \/ LayerStackPop
    \/ LayerNeighbor
    \/ SearchReturn

NextSearch == BuildGraph \/ SearchStep

\* a detector that has been entered runs on: each loop iteration that is
\* due is eventually executed
SpecSearch == InitSearch /\ [][NextSearch]_vars /\ WF_vars(SearchStep)

\* the length limit of the paths of the running detector
PathLimit == IF detector = "cycles" THEN CycleMaxLen ELSE MaxChainLen

StackPathsBounded ==
    \A k \in 1..Len(walk.stack) :
        /\ NoDup(walk.stack[k].path)
        /\ Len(walk.stack[k].path) <= PathLimit

SelfLoop == \E k \in 1..Len(adj) : Includes(adj[k][2], adj[k][1])

\* what the stepwise search returns is what the detector returns
ReturnsDetectorOutput ==
    (pc = "built" /\ walkPc = "returned") =>
        IF detector = "cycles" THEN cycles = detectCycles(adj)
        ELSE layeredChains = detectLayeredTransfers(adj, accountTxCounts)

\* C22: detectCycles and detectLayeredTransfers terminate on every finite
\* graph, also with directed cycles and self-loops: every path on the
\* work stack has pairwise distinct accounts and at most 5 (cycles) or 8
\* (chains) of them, and the detector, once entered, returns (which it
\* does only after the stack has emptied for each start node) with the
\* output of the detector.
C22_SearchTerminates ==
    /\ [](StackPathsBounded /\ ReturnsDetectorOutput)
    /\ (pc = "built") ~> (walkPc = "returned")

\* C22 witness: on a graph with a self-loop, a stack that holds a path of
\* the full length while a cycle or chain has already been found.
C22_Witness ==
    /\ Searching
    /\ SelfLoop
    /\ \E k \in 1..Len(walk.stack) : Len(walk.stack[k].path) = PathLimit
    /\ IF detector = "cycles" THEN walk.allCycles # <<>>
       ELSE walk.layeredChains # <<>>

\* ------------------------------------------------------------------------
\* The upload page: FileUpload, handleUpload and parseCSV
\* ------------------------------------------------------------------------

\* String.prototype.endsWith
EndsWith(str, suffix) ==
    /\ Len(str) >= Len(suffix)
    /\ SubSeq(str, Len(str) - Len(suffix) + 1, Len(str)) = suffix

\* ".csv"
DotCsv == <<46, 99, 115, 118>>

\* String.prototype.trim, for the white space that occurs here (space, tab)
Trim(str) ==
    LET inked == {k \in 1..Len(str) : str[k] \notin {32, 9}}
    IN  IF inked = {} THEN <<>>
        ELSE SubSeq(str, CHOOSE k \in inked : \A m \in inked : k <= m,
                         CHOOSE k \in inked : \A m \in inked : m <= k)

\* parseFloat on the amount cells that occur here: the number at the start
\* of the cell, NaN if there is none
FloatTable == [cell \in {"1", "7", "12abc"} |->
                  CASE cell = "1" -> 1 [] cell = "7" -> 7 [] OTHER -> 12]

IsNaNAmount(cell) == cell \notin DOMAIN FloatTable

\* new Date(cell).getTime() on the timestamp cells that occur here; any
\* other cell gives an invalid date
DateTable == [cell \in {"1970-01-01T00:00:00Z", "1970-01-02T00:00:00Z",
                         "1970-01-03T00:00:00Z"} |->
                 CASE cell = "1970-01-01T00:00:00Z" -> 0
                   [] cell = "1970-01-02T00:00:00Z" -> Day
                   [] OTHER -> 2 * Day]

IsInvalidDate(cell) == cell \notin DOMAIN DateTable

\* an entry of the errors list: the row number (0: none), the fixed part
\* of the text and the quoted cell or message
Message(row, problem, text) == [row |-> row, problem |-> problem, text |-> text]

\* the body of results.data.forEach((row, i) => ...), lineNum = i + 2
ParseRow(r, lineNum) ==
    IF r.transaction_id = <<>> \/ r.sender_id = <<>> \/ r.receiver_id = <<>>
    THEN [ok |-> FALSE, tx |-> Tx(<<>>, <<>>, <<>>, 0, 0),
          error |-> Message(lineNum, "Missing required fields", "")]
    ELSE IF IsNaNAmount(r.amount)
    THEN [ok |-> FALSE, tx |-> Tx(<<>>, <<>>, <<>>, 0, 0),
          error |-> Message(lineNum, "Invalid amount", r.amount)]
    ELSE IF IsInvalidDate(r.timestamp)
    THEN [ok |-> FALSE, tx |-> Tx(<<>>, <<>>, <<>>, 0, 0),
          error |-> Message(lineNum, "Invalid timestamp", r.timestamp)]
    ELSE [ok |-> TRUE,
          tx |-> Tx(Trim(r.transaction_id), Trim(r.sender_id), Trim(r.receiver_id),
                    FloatTable[r.amount], DateTable[r.timestamp]),
          error |-> Message(0, "", "")]

\* parseCSV: what the promise resolves to.  file.rows is results.data, the
\* non-empty lines under the header; an unreadable file takes the error
\* callback
parseCSV(file) ==
    IF ~file.readable
    THEN [transactions |-> <<>>,
          errors |-> <<Message(0, "Parse error", file.failure)>>]
    ELSE LET parsed == [k \in 1..Len(file.rows) |-> ParseRow(file.rows[k], k + 1)]
             good == SelectSeq(parsed, LAMBDA p : p.ok)
             bad == SelectSeq(parsed, LAMBDA p : ~p.ok)
         IN  [transactions |-> [k \in 1..Len(good) |-> good[k].tx],
              errors |-> [k \in 1..Len(bad) |-> bad[k].error]]

\* parseErrors.slice(0, 5)
ErrorsShown == 5

SliceErrors(parseErrors) == SubSeq(parseErrors, 1, Min(ErrorsShown, Len(parseErrors)))

NoValidTransactions == Message(0, "No valid transactions found in the file.", "")

\* the report of analyzeTransactions as far as the page is followed here:
\* one edge per transaction and the number of accounts
AnalysisOf(txs) ==
    [present |-> TRUE, edges |-> BuildEdges(txs),
     totalAccountsAnalyzed |-> Len(buildGraph(txs).adj)]

\* the files a user picks or drops
Row(id, sender, receiver, amount, ts) ==
    [transaction_id |-> id, sender_id |-> sender, receiver_id |-> receiver,
     amount |-> amount, timestamp |-> ts]

CsvFile(name, rows) ==
    [name |-> name, readable |-> TRUE, failure |-> "", rows |-> rows]

\* three good rows, one with padded cells
LedgerFile ==
    CsvFile(<<97>> \o DotCsv,
            << Row(<<49>>, AccA, <<32>> \o AccB \o <<32>>, "1", "1970-01-01T00:00:00Z"),
               Row(<<50>>, AccB, AccC, "7", "1970-01-02T00:00:00Z"),
               Row(<<51>>, AccC, AccA, "12abc", "1970-01-03T00:00:00Z") >>)

\* one good row behind six bad ones
WarnFile ==
    CsvFile(<<119>> \o DotCsv,
            << Row(<<>>, AccA, AccB, "1", "1970-01-01T00:00:00Z"),
               Row(<<49>>, AccA, AccB, "abc", "1970-01-01T00:00:00Z"),
               Row(<<50>>, AccA, AccB, "1", "yesterday"),
               Row(<<51>>, <<>>, AccB, "1", "1970-01-01T00:00:00Z"),
               Row(<<52>>, AccA, <<>>, "", ""),
               Row(<<53>>, AccA, AccB, "", "1970-01-01T00:00:00Z"),
               Row(<<54>>, AccD, AccE, "7", "1970-01-02T00:00:00Z") >>)

\* no good row
BadFile ==
    CsvFile(<<120>> \o DotCsv,
            << Row(<<49>>, AccA, AccB, "1", "yesterday") >>)

\* a header and nothing else
BlankFile == CsvFile(<<101>> \o DotCsv, <<>>)

UnreadableFile ==
    [name |-> <<117>> \o DotCsv, readable |-> FALSE,
     failure |-> "The file could not be read", rows |-> <<>>]

\* good rows under a name that does not end with ".csv"
TextFile == [LedgerFile EXCEPT !.name = <<110, 46, 116, 120, 116>>]

Files == {LedgerFile, WarnFile, BadFile, BlankFile, UnreadableFile, TextFile}

MaxUploads == 3

InitUpload ==
    /\ transactions = <<>>
    /\ calls = 1
    /\ firstResult = NoResult
    /\ result = NoResult
    /\ pc = "idle"
    /\ adj = <<>> /\ revAdj = <<>> /\ accountTxs = <<>>
    /\ accountTxCounts = <<>>
    /\ cycles = <<>> /\ fanInAggregators = <<>> /\ fanOutDistributors = <<>>
    /\ layeredChains = <<>> /\ highVelocityAccounts = <<>>
    /\ accountScores = <<>> /\ accountPatterns = <<>> /\ accountRings = <<>>
    /\ fraudRings = <<>> /\ ringCounter = 0
    /\ cycleRingMap = {} /\ layerRingMap = {}
    /\ cycleIdx = 0 /\ fanInIdx = 0 /\ fanOutIdx = 0 /\ layerIdx = 0
    /\ velocityIdx = 0
    /\ WalkIdle
    /\ PageMounted

\* handleFile: a file whose name does not end with ".csv" is ignored;
\* otherwise setFileName and handleUpload up to its first await:
\* setIsLoading(true); setErrors([]); setAnalysis(null); setTimeout(r, 50)
handleFile(file) ==
    IF ~EndsWith(file.name, DotCsv)
    THEN UNCHANGED pageVars
    ELSE /\ fileName' = file.name
         /\ isLoading' = TRUE
         /\ errors' = <<>>
         /\ analysis' = NoAnalysis
         /\ uploads' = Append(uploads, [file |-> file, at |-> "timer"])

\* handleChange: the file input, disabled while isLoading
PickFile ==
    /\ ~isLoading
    /\ Len(uploads) < MaxUploads
    /\ \E file \in Files : handleFile(file)
    /\ UNCHANGED <<callVars, pc, graphVars, detectVars, scoreVars, ringVars,
                   loopVars, walkVars>>

\* handleDrop: the label takes a dropped file whether or not isLoading
DropFile ==
    /\ Len(uploads) < MaxUploads
    /\ \E file \in Files : handleFile(file)
    /\ UNCHANGED <<callVars, pc, graphVars, detectVars, scoreVars, ringVars,
                   loopVars, walkVars>>

\* the 50 ms timer of the oldest waiting upload fires: parseCSV(file) starts
TimerFires ==
    /\ \E i \in 1..Len(uploads) :
         /\ uploads[i].at = "timer"
         /\ \A k \in 1..(i - 1) : uploads[k].at # "timer"
         /\ uploads' = [uploads EXCEPT ![i].at = "parsing"]
    /\ UNCHANGED <<isLoading, analysis, errors, fileName>>
    /\ UNCHANGED <<callVars, pc, graphVars, detectVars, scoreVars, ringVars,
                   loopVars, walkVars>>

\* the promise of parseCSV of some upload resolves and handleUpload runs
\* to its end
ParseCompletes ==
    /\ \E i \in 1..Len(uploads) :
         /\ uploads[i].at = "parsing"
         /\ uploads' = [uploads EXCEPT ![i].at = "done"]
         /\ LET parsed == parseCSV(uploads[i].file)
                shown == IF Len(parsed.errors) > 0
                         THEN SliceErrors(parsed.errors) ELSE errors
            IN  IF Len(parsed.transactions) = 0
                THEN /\ errors' = Append(shown, NoValidTransactions)
                     /\ isLoading' = FALSE
                     /\ UNCHANGED analysis
                ELSE /\ errors' = shown
                     /\ analysis' = AnalysisOf(parsed.transactions)
                     /\ isLoading' = FALSE
    /\ UNCHANGED fileName
    /\ UNCHANGED <<callVars, pc, graphVars, detectVars, scoreVars, ringVars,
                   loopVars, walkVars>>

NextUpload == PickFile \/ DropFile \/ TimerFires \/ ParseCompletes

SpecUpload == InitUpload /\ [][NextUpload]_vars

AllUploadsDone ==
    /\ uploads # <<>>
    /\ \A i \in 1..Len(uploads) : uploads[i].at = "done"

\* what the page shows after an upload of the file alone
ShownAnalysis(file) ==
    IF Len(parseCSV(file).transactions) = 0 THEN NoAnalysis
    ELSE AnalysisOf(parseCSV(file).transactions)

ShownErrors(file) ==
    IF Len(parseCSV(file).transactions) = 0
    THEN Append(SliceErrors(parseCSV(file).errors), NoValidTransactions)
    ELSE SliceErrors(parseCSV(file).errors)

\* C30: once all started uploads have completed, isLoading is false and
\* the displayed analysis and parse warnings are those of the most
\* recently started upload.
C30_LatestUploadShown ==
    AllUploadsDone =>
        /\ isLoading = FALSE
        /\ analysis = ShownAnalysis(uploads[Len(uploads)].file)
        /\ errors = ShownErrors(uploads[Len(uploads)].file)

====
